---- MODULE Spec2Model ----
(***************************************************************************)
(* Multiport: two Port endpoints ("A" and "B") connected by one channel.   *)
(* Every endpoint runs the code of class _Port (index.esm.js).  One action *)
(* of the model is one synchronous run of one public method or of one      *)
(* adapter callback (onData, onEnd) or of one promise continuation,        *)
(* including everything it calls.  Nested calls (a handler that destroys   *)
(* the port, an adapter that raises onEnd from inside its destroy) are     *)
(* computed inside the same action by operators that pass the endpoint's   *)
(* state along as a record.                                                *)
(***************************************************************************)
EXTENDS Integers, Sequences, FiniteSets, TLC

\* ------------------------------------------------------------------ bounds
MaxId      == 3     \* request()/stub calls stop once lastId has reached this
MaxPost    == 1     \* afterEnded()/releaseCallback() calls per endpoint
MaxNest    == 1     \* how often an adapter raises onEnd from inside its own destroy()
MaxInject  == 2     \* messages an arbitrary peer delivers (specification SpecPort)

Ports   == {"A", "B"}
Peer(e) == IF e = "A" THEN "B" ELSE "A"

\* ------------------------------------------------------- JavaScript values
\* Every value is a tuple whose first element names its kind.
Undefined  == <<"undefined">>
Null       == <<"null">>
None       == <<"none">>                       \* "nothing was thrown"
Json(n)    == <<"json", n>>                    \* a JSON number
Str(x)     == <<"str", x>>                     \* a string
Bool(b)    == <<"bool", b>>                    \* true or false
Arr(s)     == <<"arr", s>>                     \* an array
Fn(e, f)   == <<"fn", e, f>>                   \* function f of the application at e
Stub(e, cbId, n) == <<"stub", e, cbId, n>>     \* n-th stub closure made by unmapValue at e
Err(class, name, message) == <<"err", class, name, message>>
\* an object that has an own '' property: { '': tag, ... }
Keyed0(raw)          == <<"keyed", 0, raw>>
Keyed1(cbId)         == <<"keyed", 1, cbId>>
Keyed2(name, message) == <<"keyed", 2, name, message>>
Keyed3               == <<"keyed", 3>>         \* a '' value the mapper does not know

IsFunction(v) == v[1] \in {"fn", "stub"}
IsError(v)    == v[1] = "err"
IsObject(v)   == v[1] \in {"err", "null", "arr", "keyed"}     \* typeof v === 'object'

\* (/Error$/).test(value.constructor.name), for the classes the application uses
EndsInError(class) == class \in {"Error", "TypeError", "RangeError", "MyError"}

\* classes that exist as globalThis[name] on every side
GlobalClasses == {"Error", "TypeError", "RangeError"}

\* the errors the library itself raises
NoSuchHandler(name) == Err("Error", "Error", "No such handler \"" \o name \o "\"")
PortDestroyed     == Err("Error", "Error", "The Port this request is waiting on was destroyed")
CallbackDestroyed == Err("Error", "Error", "Remote callback has been destroyed")
CallbackClosed    == Err("Error", "Error", "Remote callback connection is closed")
BadRequest        == Err("Error", "Error", "Bad request")
BadResponseId     == Err("Error", "Error", "Bad or duplicate response id")
CantUnmap         == Err("TypeError", "TypeError", "Can't unmap argument")
Disconnected      == Err("Error", "Error", "Can't use disconnected Port")
NameNotString     == Err("TypeError", "TypeError", "The request name must be a string")
DuplicateHandler  == Err("Error", "Error", "Duplicate message handler")
NotInHandler      == Err("Error", "Error", "Port.isRequest() may only be called while the port is in a synchronous handler")
NullDeref         == Err("TypeError", "TypeError", "Cannot read properties of null")

\* ------------------------------------------------------------ Map helpers
Put(map, k, v) == [x \in (DOMAIN map) \cup {k} |-> IF x = k THEN v ELSE map[x]]
Del(map, k)    == [x \in (DOMAIN map) \ {k} |-> map[x]]
EmptyMap       == <<>>

\* ids produced by getRandomId at each endpoint, in the order produced
RandomIds == [A |-> <<"a1", "a2", "a3", "a4", "a5", "a6">>,
              B |-> <<"b1", "b2", "b3", "b4", "b5", "b6">>]

getRandomId(m) == RandomIds[m.self][m.rand + 1]

\* ---------------------------------------------------------------- messages
\* [name, id, args] as handed to PortAdapter.send / received by onData.  The
\* args array of a control message [id, tag, x, rest] is kept as ctl = <<id,
\* tag, x>> and args = rest.  altThis, reply and optional are the 4th to 6th
\* argument of onData.
NoCtl == <<0, -1, "">>
Msg(name, id, args) ==
    [name |-> name, id |-> id, ctl |-> NoCtl, args |-> args,
     altThis |-> "undefined", reply |-> FALSE, optional |-> FALSE]
CtlMsg(cid, tag, x, rest) ==
    [name |-> "", id |-> 0, ctl |-> <<cid, tag, x>>, args |-> rest,
     altThis |-> "undefined", reply |-> FALSE, optional |-> FALSE]

\* what JSON.stringify / JSON.parse make of one element of the args array
JsonClone(w) == IF w = Undefined THEN Null ELSE w

RECURSIVE JsonCloneAll(_)
JsonCloneAll(s) ==
    IF s = <<>> THEN <<>> ELSE <<JsonClone(Head(s))>> \o JsonCloneAll(Tail(s))

JsonCloneArgs(a) == IF a[1] = "arr" THEN Arr(JsonCloneAll(a[2])) ELSE a

\* F applied to the value of v, which is computed once
Let(v, F(_)) == CHOOSE y \in {F(x) : x \in {v}} : TRUE

\* ------------------------------------------------------------ Value Mapper
\* a mapper that does not escape objects with a '' property
mapValueUnescaped(m, value) ==
    IF IsFunction(value) THEN
        LET known == value \in DOMAIN m.cb2id
            cbId  == IF known THEN m.cb2id[value] ELSE getRandomId(m)
        IN  [m |-> [m EXCEPT !.id2cb = Put(@, cbId, value),
                             !.cb2id = Put(@, value, cbId),
                             !.rand  = IF known THEN @ ELSE @ + 1],
             v |-> Keyed1(cbId)]
    ELSE IF IsError(value) /\ EndsInError(value[2])
        THEN [m |-> m, v |-> Keyed2(value[3], value[4])]
    ELSE [m |-> m, v |-> value]

\* a mapper that draws a new id for a function each time it is sent
mapValueFresh(m, value) ==
    IF value[1] = "keyed" THEN [m |-> m, v |-> Keyed0(value)]
    ELSE IF IsFunction(value) THEN
        [m |-> [m EXCEPT !.id2cb = Put(@, getRandomId(m), value),
                         !.cb2id = Put(@, value, getRandomId(m)),
                         !.rand  = @ + 1],
         v |-> Keyed1(getRandomId(m))]
    ELSE IF IsError(value) /\ EndsInError(value[2])
        THEN [m |-> m, v |-> Keyed2(value[3], value[4])]
    ELSE [m |-> m, v |-> value]

\* _Port.mapValue(value), lines 758-779
mapValue(m, value) ==
    IF value[1] = "keyed" THEN [m |-> m, v |-> Keyed0(value)]
    ELSE IF IsFunction(value) THEN
        LET known == value \in DOMAIN m.cb2id
            cbId  == IF known THEN m.cb2id[value] ELSE getRandomId(m)
        IN  [m |-> [m EXCEPT !.id2cb = Put(@, cbId, value),
                             !.cb2id = Put(@, value, cbId),
                             !.rand  = IF known THEN @ ELSE @ + 1],
             v |-> Keyed1(cbId)]
    ELSE IF IsError(value) /\ EndsInError(value[2])
        THEN [m |-> m, v |-> Keyed2(value[3], value[4])]
    ELSE [m |-> m, v |-> value]

RECURSIVE mapAll(_, _)
mapAll(m, s) ==
    IF s = <<>> THEN [m |-> m, v |-> <<>>]
    ELSE Let(mapValue(m, Head(s)), LAMBDA h :
         Let(mapAll(h.m, Tail(s)), LAMBDA t :
         [m |-> t.m, v |-> <<h.v>> \o t.v]))

\* a decoder that hands out the wrapper of an escaped object
unmapValueWrapped(m, value) ==
    IF value[1] # "keyed" \/ value[2] = 0 THEN [m |-> m, v |-> value, exc |-> None]
    ELSE IF value[2] = 1 THEN
        LET cbId     == value[3]
            bound    == cbId \in DOMAIN m.id2cb
            callback == IF bound THEN m.id2cb[cbId] ELSE Stub(m.self, cbId, m.stubs + 1)
        IN  [m |-> [m EXCEPT !.id2cb = Put(@, cbId, callback),
                             !.cb2id = Put(@, callback, cbId),
                             !.stubs = IF bound THEN @ ELSE @ + 1],
             v |-> callback, exc |-> None]
    ELSE IF value[2] = 2 THEN
        [m |-> m,
         v |-> Err(IF value[3] \in GlobalClasses THEN value[3] ELSE "Error", value[3], value[4]),
         exc |-> None]
    ELSE [m |-> m, v |-> Undefined, exc |-> CantUnmap]

\* a decoder that makes a new stub for every callback id it is handed
unmapValueStubbing(m, value) ==
    IF value[1] # "keyed" THEN [m |-> m, v |-> value, exc |-> None]
    ELSE IF value[2] = 0 THEN [m |-> m, v |-> value[3], exc |-> None]
    ELSE IF value[2] = 1 THEN
        LET cbId     == value[3]
            callback == Stub(m.self, cbId, m.stubs + 1)
        IN  [m |-> [m EXCEPT !.id2cb = Put(@, cbId, callback),
                             !.cb2id = Put(@, callback, cbId),
                             !.stubs = @ + 1],
             v |-> callback, exc |-> None]
    ELSE IF value[2] = 2 THEN
        [m |-> m,
         v |-> Err(IF value[3] \in GlobalClasses THEN value[3] ELSE "Error", value[3], value[4]),
         exc |-> None]
    ELSE [m |-> m, v |-> Undefined, exc |-> CantUnmap]

\* _Port.unmapValue(value), lines 780-803.
\* result: the endpoint, the value, and what was thrown (None if nothing)
unmapValue(m, value) ==
    IF value[1] # "keyed" THEN [m |-> m, v |-> value, exc |-> None]
    ELSE IF value[2] = 0 THEN [m |-> m, v |-> value[3], exc |-> None]
    ELSE IF value[2] = 1 THEN
        LET cbId     == value[3]
            bound    == cbId \in DOMAIN m.id2cb
            callback == IF bound THEN m.id2cb[cbId] ELSE Stub(m.self, cbId, m.stubs + 1)
        IN  [m |-> [m EXCEPT !.id2cb = Put(@, cbId, callback),
                             !.cb2id = Put(@, callback, cbId),
                             !.stubs = IF bound THEN @ ELSE @ + 1],
             v |-> callback, exc |-> None]
    ELSE IF value[2] = 2 THEN
        [m |-> m,
         v |-> Err(IF value[3] \in GlobalClasses THEN value[3] ELSE "Error", value[3], value[4]),
         exc |-> None]
    ELSE [m |-> m, v |-> Undefined, exc |-> CantUnmap]

\* args.map(this.unmapValue, this): stops at the first element that throws
RECURSIVE unmapAll(_, _)
unmapAll(m, s) ==
    IF s = <<>> THEN [m |-> m, v |-> <<>>, exc |-> None]
    ELSE Let(unmapValue(m, Head(s)), LAMBDA h :
         IF h.exc # None THEN [m |-> h.m, v |-> <<>>, exc |-> h.exc]
         ELSE Let(unmapAll(h.m, Tail(s)), LAMBDA t :
              [m |-> t.m, v |-> <<h.v>> \o t.v, exc |-> t.exc]))

\* ------------------------------------------------ application code (inputs)
\* A handler or callback body is one of
\*   <<"ret", v>>      returns v                <<"throw", v>>   throws v
\*   <<"resolve", v>>  returns a promise that later resolves with v
\*   <<"reject", v>>   returns a promise that later rejects with v
\*   <<"destroy">>     calls port.destroy() and returns undefined
\*   <<"ask">>         returns port.isRequest()
\*   <<"nest", msg>>   calls port.post("ping") on an adapter that works
\*                     synchronously: the peer's answer msg is handed to
\*                     onData before post returns; then returns port.isRequest()
\* The functions the application at either side passes as callbacks:
FnNames == {"f", "g"}
FnBody  == [f |-> <<"ret", Json(7)>>,
            g |-> <<"throw", Err("RangeError", "RangeError", "bad")>>]

\* RegExp wildcards the application registers, and the names each matches
Filters == {"/^s/", "/um/"}
test(filter, name) ==
    \/ filter = "/^s/" /\ name \in {"sum", "sub"}
    \/ filter = "/um/" /\ name \in {"sum", "um"}

\* ------------------------------------------------------------ _Port methods
\* this.port.send(...): the message goes on the channel.  The reference
\* adapters return undefined; an adapter that obtains the reply itself returns
\* it (m.answers, undefined otherwise).  On a destroyed port this.port is null.
send(m, msg) ==
    IF m.port THEN [m |-> [m EXCEPT !.out = Append(@, msg)], exc |-> None, ret |-> m.answers]
    ELSE [m |-> m, exc |-> NullDeref, ret |-> Undefined]

\* an id source that hands out the last id again
nextIdAgain(m) == m

\* _Port.nextId(), line 689
nextId(m) == [m EXCEPT !.lastId = @ + 1]

\* new PromiseCapability; this.requests.set(id, request)
register(m, id, how, name, args) ==
    [m EXCEPT !.requests = @ \cup {id},
              !.promises = Put(@, id, [how |-> how, name |-> name, args |-> args, settled |-> <<>>])]

\* request.resolve(value) / request.reject(error)
settle(m, id, outcome) ==
    [m EXCEPT !.promises = [@ EXCEPT ![id].settled = Append(@, outcome)]]

\* a stub that forwards no arguments
stubSendNoArgs(m, id, cbId, args) ==
    Let(mapAll(m, <<>>), LAMBDA a :
    Let(send(a.m, CtlMsg(id, 0, cbId, Arr(a.v))), LAMBDA s :
    [m |-> register(s.m, id, "stub", cbId, args),
     kind |-> "promise", val |-> Undefined, await |-> id]))

\* lines 787-791 of the stub closure; id: the id nextId produced
stubSend(m, id, cbId, args) ==
    Let(mapAll(m, args), LAMBDA a :
    Let(send(a.m, CtlMsg(id, 0, cbId, Arr(a.v))), LAMBDA s :
    IF s.ret # Undefined
    THEN [m |-> [s.m EXCEPT !.value = s.ret], kind |-> "value", val |-> s.ret, await |-> 0]
    ELSE [m |-> register(s.m, id, "stub", cbId, args),
          kind |-> "promise", val |-> Undefined, await |-> id]))

\* a stub closure without its guard
stubCallUnguarded(m, cbId, args) ==
    IF ~m.port THEN [m |-> nextId(m), kind |-> "throw", val |-> NullDeref, await |-> 0]
    ELSE Let(nextId(m), LAMBDA m1 : stubSend(m1, m1.lastId, cbId, args))

\* the stub closure of unmapValue, case 1 (lines 784-793)
stubCall(m, cbId, args) ==
    IF ~m.public THEN [m |-> m, kind |-> "throw", val |-> CallbackClosed, await |-> 0]
    ELSE IF ~m.port THEN [m |-> nextId(m), kind |-> "throw", val |-> NullDeref, await |-> 0]
    ELSE Let(nextId(m), LAMBDA m1 : stubSend(m1, m1.lastId, cbId, args))

\* a destroy that forgets the pending calls
rejectNone(m, ids) == m

\* this.requests.forEach(_ => _.reject(new Error(...)))
RECURSIVE rejectAll(_, _)
rejectAll(m, ids) ==
    IF ids = {} THEN m
    ELSE LET id == CHOOSE i \in ids : \A j \in ids : i <= j
         IN  Let(settle(m, id, <<"reject", PortDestroyed>>), LAMBDA m1 :
             rejectAll(m1, ids \ {id}))

\* a getPrivate that lets every caller through
getPrivateAlways(m) == None

\* getPrivate(this): every public method but destroy and ended starts with it
getPrivate(m) == IF m.public THEN None ELSE Disconnected

\* a post that draws an id as request does
postWithId(m, name, args) ==
    IF name[1] # "str" THEN [m |-> m, exc |-> NameNotString]
    ELSE Let(nextId(m), LAMBDA m1 :
         Let(mapAll(m1, args), LAMBDA a :
         [m |-> send(a.m, Msg(name[2], m1.lastId, Arr(a.v))).m, exc |-> None]))

\* _Port.post(name, ...args), lines 742-749
post(m, name, args) ==
    IF name[1] # "str" THEN [m |-> m, exc |-> NameNotString]
    ELSE LET a == mapAll(m, args)
         IN  [m |-> send(a.m, Msg(name[2], 0, Arr(a.v))).m, exc |-> None]

\* _Port.isRequest(), lines 804-810: the value returned, or what is thrown
isRequest(m) ==
    IF m._isRequest = -1 THEN [ret |-> FALSE, exc |-> None]
    ELSE IF m._isRequest = 1 THEN [ret |-> TRUE, exc |-> None]
    ELSE [ret |-> FALSE, exc |-> NotInHandler]

\* what `return port.isRequest()` makes of a handler
ask(m) ==
    IF getPrivate(m) # None
    THEN [m |-> m, kind |-> "throw", val |-> getPrivate(m), await |-> 0]
    ELSE IF isRequest(m).exc # None
    THEN [m |-> m, kind |-> "throw", val |-> isRequest(m).exc, await |-> 0]
    ELSE [m |-> m, kind |-> "value", val |-> Bool(isRequest(m).ret), await |-> 0]

RECURSIVE destroy(_, _), onData(_, _), flush(_, _)

\* Port.destroy(reason): try { self && self.destroy(reason) } catch { reportError }
\* Port.destroy(reason), line 504: try { self.destroy(reason) } catch (error) { reportError(error) }
PublicDestroy(m, reason) ==
    Let(destroy(m, reason), LAMBDA d :
    IF d.escaped # None THEN [d EXCEPT !.escaped = None, !.reports = @ + 1] ELSE d)

\* runs a handler or a callback; the result is what the code returned or threw.
\* A handler that calls port.destroy() from the endQueue flush of destroy is
\* run again by the nested destroy (this.public is still set and the queue is
\* never emptied); the recursion ends when the stack is exhausted, where the
\* RangeError is caught and reported by Port.destroy.  The model cuts the
\* recursion at depth 2.
run(m, callable, args) ==
    LET code == IF callable[1] = "fn" THEN FnBody[callable[3]] ELSE callable IN
    IF code[1] = "ret" THEN [m |-> m, kind |-> "value", val |-> code[2], await |-> 0]
    ELSE IF code[1] = "throw" THEN [m |-> m, kind |-> "throw", val |-> code[2], await |-> 0]
    ELSE IF code[1] \in {"resolve", "reject"}
        THEN [m |-> m, kind |-> "promise", val |-> code, await |-> 0]
    ELSE IF code[1] = "destroy"
        THEN [m |-> IF m.depth <= 1 THEN PublicDestroy(m, Undefined)
                    ELSE [m EXCEPT !.reports = @ + 1],
              kind |-> "value", val |-> Undefined, await |-> 0]
    ELSE IF code[1] = "ask" THEN ask(m)
    ELSE IF code[1] = "nest"
        THEN Let(post(m, Str("ping"), <<>>), LAMBDA p :
             Let(onData(p.m, code[2]), LAMBDA inner : ask(inner.m)))
    ELSE stubCall(m, code[3], args)

\* reply ? reply('', id, [mapValue(v)]) : this.port.send('', id, [mapValue(v)])
\* a reply that always goes through the adapter's send
answerViaSend(m, msg, id, v) ==
    IF ~m.port THEN [m |-> m, exc |-> NullDeref]
    ELSE Let(mapValue(m, v), LAMBDA w : send(w.m, Msg("", id, Arr(<<w.v>>))))

answer(m, msg, id, v) ==
    IF ~msg.reply /\ ~m.port THEN [m |-> m, exc |-> NullDeref]
    ELSE Let(mapValue(m, v), LAMBDA w :
         IF msg.reply
         THEN [m |-> [w.m EXCEPT !.out = Append(@, [Msg("", id, Arr(<<w.v>>)) EXCEPT !.reply = TRUE])],
               exc |-> None]
         ELSE send(w.m, Msg("", id, Arr(<<w.v>>))))

\* lines 865-878: what onData does with the value r a handler or callback returned
respond(m, msg, id, r) ==
    IF r.kind # "promise" THEN
        IF id # 0
        THEN Let(answer(m, msg, id, r.val), LAMBDA a :
             [m |-> a.m, exc |-> a.exc, ret |-> FALSE, id |-> id])
        ELSE [m |-> m, exc |-> None, ret |-> FALSE, id |-> id]
    ELSE [m |-> [m EXCEPT !.deferred = Append(@, [id |-> id, reply |-> msg.reply,
                                                   outcome |-> r.val, await |-> r.await])],
          exc |-> None, ret |-> (id # 0), id |-> id]

\* a lookup that lets the pattern registered last win
lookupLast(m, name) ==
    IF name \in DOMAIN m.handlers THEN m.handlers[name]
    ELSE LET hits == {i \in 1..Len(m.wildcards) : test(m.wildcards[i][1], name)}
         IN  IF hits = {} THEN <<>>
             ELSE LET last == CHOOSE i \in hits : \A j \in hits : i >= j
                  IN  <<m.wildcards[last][2], m.wildcards[last][3]>>

\* the handler lookup of onData (lines 851-856): <<handler, thisArg>> or <<>> when none
lookup(m, name) ==
    IF name \in DOMAIN m.handlers THEN m.handlers[name]
    ELSE LET hits == {i \in 1..Len(m.wildcards) : test(m.wildcards[i][1], name)}
         IN  IF hits = {} THEN <<>>
             ELSE LET first == CHOOSE i \in hits : \A j \in hits : i <= j
                  IN  <<m.wildcards[first][2], m.wildcards[first][3]>>

\* the record of what onData ran for inbound id
log(m, id, target, args, r) ==
    [m EXCEPT !.served = Put(@, id, [n |-> IF id \in DOMAIN @ THEN @[id].n + 1 ELSE 1,
                                     target |-> target, args |-> args,
                                     kind |-> r.kind, val |-> r.val, this |-> m.receiver]),
              !.trace  = Append(@, <<"run", target, args>>)]

\* after the handler or callback ran with result r
returned(r, msg, id, target, args) ==
    Let(log(r.m, id, target, args, r), LAMBDA m :
    IF r.kind = "throw" THEN [m |-> m, exc |-> r.val, ret |-> FALSE, id |-> id]
    ELSE respond(m, msg, id, r))

\* a callback call that ignores an id that is not bound
callbackCallLenient(m, msg, id, cbId) ==
    IF cbId \notin DOMAIN m.id2cb
    THEN [m |-> m, exc |-> None, ret |-> FALSE, id |-> id]
    ELSE IF msg.args[1] # "arr"
    THEN [m |-> m, exc |-> NullDeref, ret |-> FALSE, id |-> id]
    ELSE Let(unmapAll(m, msg.args[2]), LAMBDA u :
         IF u.exc # None THEN [m |-> u.m, exc |-> u.exc, ret |-> FALSE, id |-> id]
         ELSE Let(run(u.m, m.id2cb[cbId], u.v), LAMBDA r :
              returned([r EXCEPT !.m.receiver = "null"], msg, id, m.id2cb[cbId], u.v)))

\* case 0 of the special requests (lines 833-837)
callbackCall(m, msg, id, cbId) ==
    IF cbId \notin DOMAIN m.id2cb
    THEN [m |-> m, exc |-> CallbackDestroyed, ret |-> FALSE, id |-> id]
    ELSE IF msg.args[1] # "arr"
    THEN [m |-> m, exc |-> NullDeref, ret |-> FALSE, id |-> id]
    ELSE Let(unmapAll(m, msg.args[2]), LAMBDA u :
         IF u.exc # None THEN [m |-> u.m, exc |-> u.exc, ret |-> FALSE, id |-> id]
         ELSE Let(run(u.m, m.id2cb[cbId], u.v), LAMBDA r :
              returned([r EXCEPT !.m.receiver = "null"], msg, id, m.id2cb[cbId], u.v)))

\* a dispatch that treats every message as optional
handlerCallOptional(m, msg, id, pair, args) ==
    IF pair = <<>> THEN [m |-> m, exc |-> None, ret |-> FALSE, id |-> id]
    ELSE Let(run([m EXCEPT !._isRequest = IF id = 0 THEN -1 ELSE 1], pair[1], args), LAMBDA r :
         returned([r EXCEPT !.m._isRequest = 0], msg, id, pair[1], args))

\* a dispatch that resets the flag only when the handler returns
handlerCallNoFinally(m, msg, id, pair, args) ==
    IF pair = <<>>
    THEN [m |-> m, exc |-> IF msg.optional THEN None ELSE NoSuchHandler(msg.name),
          ret |-> FALSE, id |-> id]
    ELSE Let(run([m EXCEPT !._isRequest = IF id = 0 THEN -1 ELSE 1], pair[1], args), LAMBDA r :
         returned(IF r.kind = "throw" THEN r ELSE [r EXCEPT !.m._isRequest = 0],
                  msg, id, pair[1], args))

\* line 862: thisArg !== undefined ? thisArg : altThis
receiver(thisArg, altThis) == IF thisArg # "undefined" THEN thisArg ELSE altThis

\* a dispatch that treats no message as optional
handlerCallStrict(m, msg, id, pair, args) ==
    IF pair = <<>> THEN [m |-> m, exc |-> NoSuchHandler(msg.name), ret |-> FALSE, id |-> id]
    ELSE Let(run([m EXCEPT !._isRequest = IF id = 0 THEN -1 ELSE 1], pair[1], args), LAMBDA r :
         returned([r EXCEPT !.m._isRequest = 0, !.m.receiver = receiver(pair[2], msg.altThis)],
                  msg, id, pair[1], args))

\* lines 859-863: if (!handler) ...; try { _isRequest = ...; handler.apply(...) }
\* finally { _isRequest = 0 }
handlerCall(m, msg, id, pair, args) ==
    IF pair = <<>>
    THEN [m |-> m, exc |-> IF msg.optional THEN None ELSE NoSuchHandler(msg.name),
          ret |-> FALSE, id |-> id]
    ELSE Let(run([m EXCEPT !._isRequest = IF id = 0 THEN -1 ELSE 1], pair[1], args), LAMBDA r :
         returned([r EXCEPT !.m._isRequest = 0, !.m.receiver = receiver(pair[2], msg.altThis)],
                  msg, id, pair[1], args))

\* a dispatch that waits while the result of an earlier call is outstanding
dispatchInTurn(m, msg) ==
    IF m.deferred # <<>> THEN [m |-> m, exc |-> None, ret |-> TRUE, id |-> msg.id]
    ELSE IF msg.args[1] # "arr" THEN [m |-> m, exc |-> NullDeref, ret |-> FALSE, id |-> msg.id]
    ELSE Let(unmapAll(m, msg.args[2]), LAMBDA u :
         IF u.exc # None THEN [m |-> u.m, exc |-> u.exc, ret |-> FALSE, id |-> msg.id]
         ELSE handlerCall(u.m, msg, msg.id, lookup(u.m, msg.name),
                          IF msg.name \in DOMAIN u.m.handlers THEN u.v
                          ELSE <<Str(msg.name)>> \o u.v))

\* lines 849-864
dispatch(m, msg) ==
    IF msg.args[1] # "arr" THEN [m |-> m, exc |-> NullDeref, ret |-> FALSE, id |-> msg.id]
    ELSE Let(unmapAll(m, msg.args[2]), LAMBDA u :
         IF u.exc # None THEN [m |-> u.m, exc |-> u.exc, ret |-> FALSE, id |-> msg.id]
         ELSE handlerCall(u.m, msg, msg.id, lookup(u.m, msg.name),
                          IF msg.name \in DOMAIN u.m.handlers THEN u.v
                          ELSE <<Str(msg.name)>> \o u.v))

\* the try block of the request branch, lines 829-878.
\* id is the id the catch block sees when exc is set.
request_(m, msg) ==
    IF msg.name = "" /\ msg.id = 0 THEN
        IF msg.ctl[2] = 0 THEN callbackCall(m, msg, msg.ctl[1], msg.ctl[3])
        ELSE IF msg.ctl[2] \in {1, 2}
            THEN [m |-> [m EXCEPT !.endQueue = Append(@, <<msg.ctl[3], msg.args>>)],
                  exc |-> None, ret |-> FALSE, id |-> msg.ctl[1]]
        ELSE [m |-> m, exc |-> BadRequest, ret |-> FALSE, id |-> msg.ctl[1]]
    ELSE dispatch(m, msg)

\* a reply branch that ignores the id and settles the oldest pending call
replyToOldest(m, msg) ==
    IF m.requests = {} THEN [m EXCEPT !.reports = @ + 1]
    ELSE LET id == CHOOSE i \in m.requests : \A j \in m.requests : i <= j
         IN  settle([m EXCEPT !.requests = @ \ {id}], id,
                    <<IF msg.id < 0 THEN "reject" ELSE "resolve", Undefined>>)

\* a reply branch that keeps the continuation of an answered call and fires
\* it again for a duplicate reply
replyAgain(m, msg) ==
    LET threw == msg.id < 0
        id    == IF threw THEN -msg.id ELSE msg.id
    IN  IF id \notin DOMAIN m.promises THEN [m EXCEPT !.reports = @ + 1]
        ELSE IF msg.args[1] # "arr" THEN [m EXCEPT !.requests = @ \ {id}, !.reports = @ + 1]
        ELSE IF msg.args[2] = <<>>
            THEN settle([m EXCEPT !.requests = @ \ {id}], id,
                        <<IF threw THEN "reject" ELSE "resolve", Undefined>>)
        ELSE Let(unmapValue([m EXCEPT !.requests = @ \ {id}], msg.args[2][1]), LAMBDA u :
             IF u.exc # None THEN [u.m EXCEPT !.reports = @ + 1]
             ELSE settle(u.m, id, <<IF threw THEN "reject" ELSE "resolve", u.v>>))

\* the reply branch, lines 888-901
reply_(m, msg) ==
    LET threw == msg.id < 0
        id    == IF threw THEN -msg.id ELSE msg.id
    IN  IF id \notin m.requests THEN [m EXCEPT !.reports = @ + 1]
        ELSE IF msg.args[1] # "arr" THEN [m EXCEPT !.requests = @ \ {id}, !.reports = @ + 1]
        ELSE IF msg.args[2] = <<>>
            THEN settle([m EXCEPT !.requests = @ \ {id}], id,
                        <<IF threw THEN "reject" ELSE "resolve", Undefined>>)
        ELSE Let(unmapValue([m EXCEPT !.requests = @ \ {id}], msg.args[2][1]), LAMBDA u :
             IF u.exc # None THEN [u.m EXCEPT !.reports = @ + 1]
             ELSE settle(u.m, id, <<IF threw THEN "reject" ELSE "resolve", u.v>>))

\* a catch block that only reports
caughtSilently(t, msg) ==
    IF t.exc = None THEN [m |-> t.m, ret |-> t.ret, exc |-> None]
    ELSE [m |-> [t.m EXCEPT !.reports = @ + 1], ret |-> FALSE, exc |-> None]

\* a request branch without its catch block
caughtNothing(t, msg) == [m |-> t.m, ret |-> t.ret, exc |-> t.exc]

\* the catch block of the request branch, lines 879-886; t: the outcome of the try block
caught(t, msg) ==
    IF t.exc = None THEN [m |-> t.m, ret |-> t.ret, exc |-> None]
    ELSE IF t.id # 0
        THEN Let(answer(t.m, msg, -t.id, t.exc), LAMBDA a :
             [m |-> a.m, ret |-> FALSE, exc |-> a.exc])
    ELSE [m |-> [t.m EXCEPT !.reports = @ + 1], ret |-> FALSE, exc |-> None]

\* onData(name, id, args, altThis, reply, optional): the endpoint afterwards,
\* the value returned and what escaped to the adapter (None if nothing)
onData(m, msg) ==
    IF msg.name # "" \/ msg.id = 0
    THEN Let(request_(m, msg), LAMBDA t : caught(t, msg))
    ELSE [m |-> reply_(m, msg), ret |-> FALSE, exc |-> None]

\* this.endQueue.forEach(([ name, args, ]) => this.onData(name, 0, args))
flush(m, i) ==
    IF i > Len(m.endQueue) THEN m
    ELSE Let(onData(m, Msg(m.endQueue[i][1], 0, m.endQueue[i][2])), LAMBDA r :
         flush(r.m, i + 1))

\* lines 819-820
rejectPending(m) ==
    Let(rejectAll(m, m.requests), LAMBDA m1 :
    [m1 EXCEPT !.requests = {}, !.handlers = EmptyMap, !.id2cb = EmptyMap])

\* line 821
signalEnd(m, error) ==
    [m EXCEPT !.endSignal = Append(@, IF IsObject(error) THEN error ELSE Null), !.ended = TRUE,
              !.trace = Append(@, <<"end">>)]

\* what a failing adapter throws from its destroy
AdapterFailed == Err("Error", "Error", "adapter failed")

\* an adapter whose destroy throws (a value of m.reenter)
Throws == -1

\* a call of the adapter's destroy without the try
adapterDestroyUncaught(m) ==
    IF ~m.port THEN [m EXCEPT !.escaped = NullDeref]
    ELSE IF m.reenter = Throws
    THEN [m EXCEPT !.destroyCalls = @ + 1, !.escaped = AdapterFailed]
    ELSE IF m.reenter > 0
    THEN destroy([m EXCEPT !.destroyCalls = @ + 1, !.reenter = @ - 1], Undefined)
    ELSE [m EXCEPT !.destroyCalls = @ + 1]

\* line 822: try { this.port.destroy() } catch (error) { console.error(error) }
\* The adapter may raise onEnd (= this.destroy) from inside its destroy, or
\* its destroy may throw.
adapterDestroy(m) ==
    IF ~m.port THEN [m EXCEPT !.reports = @ + 1]
    ELSE IF m.reenter = Throws
    THEN [m EXCEPT !.destroyCalls = @ + 1, !.reports = @ + 1]
    ELSE IF m.reenter > 0
    THEN destroy([m EXCEPT !.destroyCalls = @ + 1, !.reenter = @ - 1], Undefined)
    ELSE [m EXCEPT !.destroyCalls = @ + 1]

\* a destroy without its guard
neverDestroyed(m) == FALSE

\* line 817
isDestroyed(m) == ~m.public

\* _Port.destroy(error), lines 816-824; m.escaped: what a statement of it
\* threw to the caller (None if nothing), which ends it before line 823
destroy(m, error) ==
    IF isDestroyed(m) THEN m
    ELSE Let(flush([m EXCEPT !.depth = @ + 1], 1), LAMBDA m1 :
         Let(rejectPending(m1), LAMBDA m2 :
         Let(adapterDestroy(signalEnd(m2, error)), LAMBDA m4 :
         IF m4.escaped # None THEN [m4 EXCEPT !.depth = @ - 1]
         ELSE [m4 EXCEPT !.public = FALSE, !.port = FALSE, !.depth = @ - 1])))

\* this.port.send(...) of an adapter that acts before its send returns
\* (m.during): nothing (None); <<"reply", v>>: the channel works synchronously
\* and hands the peer's reply v to onData; <<"end", reason>>: the message
\* cannot be sent and the adapter raises onEnd(reason), as web_ext_Port.send
\* does (lines 641-651)
sendOn(m, msg) ==
    IF m.during = None \/ ~m.port THEN send(m, msg)
    ELSE IF m.during[1] = "reply"
    THEN Let(send(m, msg), LAMBDA s :
         [s EXCEPT !.m = onData(s.m, Msg("", msg.id, Arr(<<m.during[2]>>))).m])
    ELSE [m |-> destroy(m, m.during[2]), exc |-> None, ret |-> Undefined]

\* a request that waits for a reply whatever send returned
requestAlwaysWaits(m, name, args) ==
    IF name[1] # "str" THEN [m |-> m, exc |-> NameNotString]
    ELSE LET m1 == nextId(m)
             id == m1.lastId
             a  == mapAll(m1, args)
             s  == send(a.m, Msg(name[2], id, Arr(a.v)))
         IN  [m |-> register(s.m, id, "request", name[2], args), exc |-> None]

\* _Port.request(name, ...args), lines 729-741; m.value: the value returned
\* when it is not the promise of a new Request Table entry
request(m, name, args) ==
    IF name[1] # "str" THEN [m |-> m, exc |-> NameNotString]
    ELSE LET m1 == nextId(m)
             id == m1.lastId
             a  == mapAll(m1, args)
             s  == sendOn(a.m, Msg(name[2], id, Arr(a.v)))
         IN  IF s.ret # Undefined THEN [m |-> [s.m EXCEPT !.value = s.ret], exc |-> None]
             ELSE [m |-> register(s.m, id, "request", name[2], args), exc |-> None]

\* _Port.afterEnded(name, ...args), lines 750-757
afterEnded(m, name, args) ==
    IF name[1] # "str" THEN [m |-> m, exc |-> NameNotString]
    ELSE LET a == mapAll(m, args)
         IN  [m |-> send(a.m, CtlMsg(0, 1, name[2], Arr(a.v))).m, exc |-> None]

\* an addHandler that replaces the handler registered under an exact name
addHandlerReplace(m, name, handler, thisArg) ==
    IF name[1] = "str" /\ name[2] # ""
    THEN [m |-> [m EXCEPT !.handlers = Put(@, name[2], <<handler, thisArg>>)], exc |-> None]
    ELSE [m |-> [m EXCEPT !.wildcards = Append(@, <<name[2], handler, thisArg>>)], exc |-> None]

\* _Port.addHandler(name, handler, thisArg), lines 691-704
addHandler(m, name, handler, thisArg) ==
    IF name[1] = "str" /\ name[2] # "" THEN
        IF name[2] \in DOMAIN m.handlers THEN [m |-> m, exc |-> DuplicateHandler]
        ELSE [m |-> [m EXCEPT !.handlers = Put(@, name[2], <<handler, thisArg>>)], exc |-> None]
    ELSE \* a RegExp: Map.set keeps the position of a key that is already there
        LET at == {i \in 1..Len(m.wildcards) : m.wildcards[i][1] = name[2]}
        IN  [m |-> [m EXCEPT !.wildcards =
                        IF at = {} THEN Append(@, <<name[2], handler, thisArg>>)
                        ELSE [i \in 1..Len(@) |-> IF i \in at THEN <<name[2], handler, thisArg>> ELSE @[i]]],
             exc |-> None]

\* prefix + name
Concat(prefix, name) == prefix \o name

\* typeof f === 'function': the kinds of value that are functions
Callables == {"ret", "throw", "resolve", "reject", "destroy", "ask", "nest", "fn", "stub"}

\* _Port.addHandlers(prefix, handlers, thisArg), lines 705-721.
\* handlers: the [name, value] entries of the object or array, in order
RECURSIVE setAll(_, _, _, _)
setAll(map, prefix, add, thisArg) ==
    IF add = <<>> THEN map
    ELSE setAll(Put(map, Concat(prefix, Head(add)[1][2]), <<Head(add)[2], thisArg>>),
                prefix, Tail(add), thisArg)

\* an addHandlers that registers entry by entry and stops at the first it refuses
RECURSIVE setUntilRefused(_, _, _, _)
setUntilRefused(m, prefix, add, thisArg) ==
    IF add = <<>> THEN [m |-> m, exc |-> None]
    ELSE IF Head(add)[1][1] # "str" \/ Head(add)[1] = Str("")
    THEN [m |-> m, exc |-> Err("TypeError", "TypeError", "Handler names must be non-empty strings")]
    ELSE IF Head(add)[1][2] \in DOMAIN m.handlers
    THEN [m |-> m, exc |-> DuplicateHandler]
    ELSE setUntilRefused([m EXCEPT !.handlers = Put(@, Concat(prefix, Head(add)[1][2]),
                                                     <<Head(add)[2], thisArg>>)],
                         prefix, Tail(add), thisArg)

addHandlersEager(m, prefix, entries, thisArg) ==
    setUntilRefused(m, prefix[2], SelectSeq(entries, LAMBDA en : en[2][1] \in Callables), thisArg)

addHandlers(m, prefix, entries, thisArg) ==
    IF prefix[1] # "str" THEN [m |-> m, exc |-> Err("TypeError", "TypeError", "Handler name prefixes must be strings (or omitted)")]
    ELSE LET add == SelectSeq(entries, LAMBDA en : en[2][1] \in Callables)
             bad == {i \in 1..Len(add) : add[i][1][1] # "str" \/ add[i][1] = Str("")}
             dup == {i \in 1..Len(add) : add[i][1][1] = "str" /\ add[i][1][2] \in DOMAIN m.handlers}
             hit == bad \cup dup
             first == CHOOSE i \in hit : \A j \in hit : i <= j
         IN  IF hit # {}
             THEN [m |-> m, exc |-> IF first \in bad
                                    THEN Err("TypeError", "TypeError", "Handler names must be non-empty strings")
                                    ELSE DuplicateHandler]
             ELSE [m |-> [m EXCEPT !.handlers = setAll(@, prefix[2], add, thisArg)], exc |-> None]

\* _Port.removeHandler(name), lines 722-725
removeHandler(m, name) ==
    IF name[1] = "str" THEN [m EXCEPT !.handlers = Del(@, name[2])]
    ELSE [m EXCEPT !.wildcards = SelectSeq(@, LAMBDA w : w[1] # name[2])]

\* _Port.hasHandler(name), lines 726-728
hasHandler(m, name) ==
    IF name[1] = "str" THEN name[2] \in DOMAIN m.handlers
    ELSE \E i \in 1..Len(m.wildcards) : m.wildcards[i][1] = name[2]

\* _Port.releaseCallback(callback, remote), lines 811-815
releaseCallback(m, callback, remote) ==
    IF callback \notin DOMAIN m.cb2id THEN [m |-> m, exc |-> None]
    ELSE LET cbId == m.cb2id[callback]
             m1   == [m EXCEPT !.id2cb = Del(@, cbId), !.cb2id = Del(@, callback)]
         IN  IF remote THEN [m |-> m1, exc |-> None]
             ELSE send(m1, CtlMsg(0, 2, cbId, Undefined))

\* ------------------------------------------------------------------- state
VARIABLES
    public,        \* this.public is set (FALSE: null)
    port,          \* this.port, the adapter, is set (FALSE: null)
    requests,      \* keys of this.requests
    handlers,      \* this.handlers: name -> <<handler, thisArg>>
    wildcards,     \* this.wildcards in insertion order: <<filter, handler, thisArg>>
    lastId,        \* this.lastId
    cb2id,         \* this.cb2id: function -> callback id
    id2cb,         \* this.id2cb: callback id -> function
    endQueue,      \* this.endQueue: <<name, args>>
    ended,         \* this.ended === true
    _isRequest,    \* this._isRequest
    promises,      \* every PromiseCapability made: id -> how it was issued and the outcomes fired
    endSignal,     \* the values this.onEnd (the resolver of .ended) was called with
    destroyCalls,  \* how often the adapter's destroy() was called
    deferred,      \* continuations attached to promises that handlers returned
    rand,          \* how many ids getRandomId has produced
    stubs,         \* how many stub closures unmapValue has made
    made,          \* the stub closures the application got hold of
    served,        \* per inbound id: the handler or callback onData invoked last, and how often
    posts,         \* how many post()/afterEnded()/releaseCallback() calls the application made
    injected,      \* how many messages the arbitrary peer has delivered
    linked,        \* the peer is the other endpoint (FALSE: an arbitrary peer)
    chan,          \* chan[e]: the messages in flight to e
    ev             \* the last step: which operation, what it threw, reported, sent, returned,
                   \* and the handlers it ran and termination signals it gave, in order

endpoint == <<public, port, requests, handlers, wildcards, lastId, cb2id, id2cb, endQueue,
              ended, _isRequest, promises, endSignal, destroyCalls, deferred, rand, stubs,
              made, served>>
vars == <<endpoint, posts, injected, linked, chan, ev>>

\* the endpoint e as the record the methods above work on
Self(e, reenter) ==
    [self |-> e, public |-> public[e], port |-> port[e], requests |-> requests[e],
     handlers |-> handlers[e], wildcards |-> wildcards[e], lastId |-> lastId[e],
     cb2id |-> cb2id[e], id2cb |-> id2cb[e], endQueue |-> endQueue[e], ended |-> ended[e],
     _isRequest |-> _isRequest[e], promises |-> promises[e], endSignal |-> endSignal[e],
     destroyCalls |-> destroyCalls[e], deferred |-> deferred[e], rand |-> rand[e],
     stubs |-> stubs[e], served |-> served[e],
     out |-> <<>>, reports |-> 0, trace |-> <<>>, depth |-> 0, reenter |-> reenter,
     receiver |-> "undefined", answers |-> Undefined, value |-> Undefined, escaped |-> None,
     during |-> None]

\* the stubs the application got as arguments of its handlers and callbacks
\* or as results of its calls
StubsIn(m) ==
    {c \in DOMAIN m.cb2id : /\ c[1] = "stub"
                            /\ \/ \E k \in DOMAIN m.served :
                                    \E i \in 1..Len(m.served[k].args) : m.served[k].args[i] = c
                               \/ \E k \in DOMAIN m.promises :
                                    \E i \in 1..Len(m.promises[k].settled) : m.promises[k].settled[i][2] = c}

NoMsg == Msg("", 0, Undefined)

RECURSIVE Wire(_)
Wire(out) ==
    IF out = <<>> THEN <<>>
    ELSE <<[Head(out) EXCEPT !.args = JsonCloneArgs(@), !.reply = FALSE]>> \o Wire(Tail(out))

\* the step of endpoint e that leaves it as m
InstallMsg(e, m, op, msg, exc, ret) ==
    /\ public'       = [public EXCEPT ![e] = m.public]
    /\ port'         = [port EXCEPT ![e] = m.port]
    /\ requests'     = [requests EXCEPT ![e] = m.requests]
    /\ handlers'     = [handlers EXCEPT ![e] = m.handlers]
    /\ wildcards'    = [wildcards EXCEPT ![e] = m.wildcards]
    /\ lastId'       = [lastId EXCEPT ![e] = m.lastId]
    /\ cb2id'        = [cb2id EXCEPT ![e] = m.cb2id]
    /\ id2cb'        = [id2cb EXCEPT ![e] = m.id2cb]
    /\ endQueue'     = [endQueue EXCEPT ![e] = m.endQueue]
    /\ ended'        = [ended EXCEPT ![e] = m.ended]
    /\ _isRequest'   = [_isRequest EXCEPT ![e] = m._isRequest]
    /\ promises'     = [promises EXCEPT ![e] = m.promises]
    /\ endSignal'    = [endSignal EXCEPT ![e] = m.endSignal]
    /\ destroyCalls' = [destroyCalls EXCEPT ![e] = m.destroyCalls]
    /\ deferred'     = [deferred EXCEPT ![e] = m.deferred]
    /\ rand'         = [rand EXCEPT ![e] = m.rand]
    /\ stubs'        = [stubs EXCEPT ![e] = m.stubs]
    /\ made'         = [made EXCEPT ![e] = @ \cup StubsIn(m)]
    /\ served'       = [served EXCEPT ![e] = m.served]
    /\ posts'        = [posts EXCEPT ![e] = IF op \in {"post", "afterEnded", "releaseCallback"} /\ exc = None
                                             THEN @ + 1 ELSE @]
    /\ ev'           = [op |-> op, at |-> e, open |-> public[e], msg |-> msg, exc |-> exc,
                        given |-> m.answers, value |-> m.value, during |-> m.during,
                        ret |-> ret, reports |-> m.reports, out |-> m.out, trace |-> m.trace]
    /\ UNCHANGED linked

Install(e, m, op, exc, ret) == InstallMsg(e, m, op, NoMsg, exc, ret)

\* the arguments of a call of a public method, as ev records them
Call(arguments) == Msg("", 0, Arr(arguments))

\* the messages e handed to its adapter in this step reach the channel to the
\* peer, unless the peer's adapter has closed it
Transmit(e, out) ==
    LET to == Peer(e) IN
    chan' = [chan EXCEPT ![to] = IF linked /\ destroyCalls[to] = 0 THEN @ \o Wire(out) ELSE @]

InitPort ==
    /\ public       = [e \in Ports |-> TRUE]
    /\ port         = [e \in Ports |-> TRUE]
    /\ requests     = [e \in Ports |-> {}]
    /\ handlers     = [e \in Ports |-> EmptyMap]
    /\ wildcards    = [e \in Ports |-> <<>>]
    /\ lastId       = [e \in Ports |-> 1]
    /\ cb2id        = [e \in Ports |-> EmptyMap]
    /\ id2cb        = [e \in Ports |-> EmptyMap]
    /\ endQueue     = [e \in Ports |-> <<>>]
    /\ ended        = [e \in Ports |-> FALSE]
    /\ _isRequest   = [e \in Ports |-> 0]
    /\ promises     = [e \in Ports |-> EmptyMap]
    /\ endSignal    = [e \in Ports |-> <<>>]
    /\ destroyCalls = [e \in Ports |-> 0]
    /\ deferred     = [e \in Ports |-> <<>>]
    /\ rand         = [e \in Ports |-> 0]
    /\ stubs        = [e \in Ports |-> 0]
    /\ made         = [e \in Ports |-> {}]
    /\ served       = [e \in Ports |-> EmptyMap]
    /\ posts        = [e \in Ports |-> 0]
    /\ injected     = 0
    /\ chan         = [e \in Ports |-> <<>>]
    /\ ev           = [op |-> "new", at |-> "A", open |-> TRUE, msg |-> NoMsg, exc |-> None,
                       given |-> Undefined, value |-> Undefined, during |-> None,
                       ret |-> FALSE, reports |-> 0, out |-> <<>>, trace |-> <<>>]

\* ------------------------------------------------------------- application
RangeBad == Err("RangeError", "RangeError", "bad")
MyBad    == Err("MyError", "MyError", "bad")

\* the handlers the application registers under each name
HandlerOf(name) ==
    CASE name = "sum"  -> {<<"ret", Json(5)>>, <<"resolve", Keyed1("x")>>}
      [] name = "fail" -> {<<"throw", RangeBad>>, <<"reject", MyBad>>}
      [] name = "bye"  -> {<<"destroy">>}
      [] OTHER         -> {<<"ret", Json(6)>>}

\* ------------------------------------------------------------------ actions
\* port.addHandler(name, handler, thisArg); thisArg is "undefined" (absent),
\* "null" or "obj" (an object of the application)
AddHandlerWith(e, name, handler, thisArg) ==
    LET m == Self(e, 0)
        g == getPrivate(m)
        n == IF name \in Filters THEN <<"regexp", name>> ELSE Str(name)
        r == addHandler(m, n, handler, thisArg)
        a == IF thisArg = "undefined" THEN <<n, handler>> ELSE <<n, handler, Str(thisArg)>>
    IN  /\ IF g # None THEN InstallMsg(e, m, "addHandler", Call(a), g, FALSE)
           ELSE InstallMsg(e, r.m, "addHandler", Call(a), r.exc, FALSE)
        /\ UNCHANGED <<chan, injected>>

AddHandler(e, name, handler) == AddHandlerWith(e, name, handler, "undefined")

\* port.request(name, ...args) on an adapter whose send returns given after
\* it has done what during says
RequestOn(e, name, args, given, during) ==
    LET m == [Self(e, 0) EXCEPT !.answers = given, !.during = during]
        g == getPrivate(m)
        r == request(m, name, args)
    IN  /\ lastId[e] < MaxId
        /\ IF g # None THEN InstallMsg(e, m, "request", Call(<<name>> \o args), g, FALSE) /\ UNCHANGED chan
           ELSE InstallMsg(e, r.m, "request", Call(<<name>> \o args), r.exc, FALSE) /\ Transmit(e, r.m.out)
        /\ UNCHANGED injected

\* port.request(name, ...args) on an adapter whose send returns given
RequestVia(e, name, args, given) == RequestOn(e, name, args, given, None)

Request(e, name, args) == RequestVia(e, name, args, Undefined)

AddHandlers(e, prefix, entries) ==
    LET m == Self(e, 0)
        g == getPrivate(m)
        r == addHandlers(m, Str(prefix), entries, "undefined")
    IN  /\ IF g # None THEN InstallMsg(e, m, "addHandlers", Call(<<Str(prefix), Arr(entries)>>), g, FALSE)
           ELSE InstallMsg(e, r.m, "addHandlers", Call(<<Str(prefix), Arr(entries)>>), r.exc, FALSE)
        /\ UNCHANGED <<chan, injected>>

RemoveHandler(e, name) ==
    LET m == Self(e, 0)
        g == getPrivate(m)
    IN  /\ IF g # None THEN Install(e, m, "removeHandler", g, FALSE)
           ELSE Install(e, removeHandler(m, IF name \in Filters THEN <<"regexp", name>> ELSE Str(name)),
                        "removeHandler", None, FALSE)
        /\ UNCHANGED <<chan, injected>>

HasHandler(e, name) ==
    LET m == Self(e, 0)
        g == getPrivate(m)
    IN  /\ IF g # None THEN Install(e, m, "hasHandler", g, FALSE)
           ELSE Install(e, m, "hasHandler", None,
                        hasHandler(m, IF name \in Filters THEN <<"regexp", name>> ELSE Str(name)))
        /\ UNCHANGED <<chan, injected>>

\* port.isRequest() called by the application outside any handler
IsRequest(e) ==
    LET m == Self(e, 0)
        g == getPrivate(m)
        r == isRequest(m)
    IN  /\ IF g # None THEN Install(e, m, "isRequest", g, FALSE)
           ELSE Install(e, m, "isRequest", r.exc, r.ret)
        /\ UNCHANGED <<chan, injected>>

Post(e, name, args) ==
    LET m == Self(e, 0)
        g == getPrivate(m)
        r == post(m, name, args)
    IN  /\ posts[e] < MaxPost
        /\ IF g # None THEN InstallMsg(e, m, "post", Call(<<name>> \o args), g, FALSE) /\ UNCHANGED chan
           ELSE InstallMsg(e, r.m, "post", Call(<<name>> \o args), r.exc, FALSE) /\ Transmit(e, r.m.out)
        /\ UNCHANGED injected

AfterEnded(e, name, args) ==
    LET m == Self(e, 0)
        g == getPrivate(m)
        r == afterEnded(m, Str(name), args)
    IN  /\ posts[e] < MaxPost
        /\ IF g # None THEN Install(e, m, "afterEnded", g, FALSE) /\ UNCHANGED chan
           ELSE Install(e, r.m, "afterEnded", r.exc, FALSE) /\ Transmit(e, r.m.out)
        /\ UNCHANGED injected

\* the application calls a stub it was given
\* the application calls a stub on an adapter whose send returns given
InvokeStubVia(e, stub, args, given) ==
    LET r == stubCall([Self(e, 0) EXCEPT !.answers = given], stub[3], args)
    IN  /\ lastId[e] < MaxId
        /\ InstallMsg(e, r.m, "stub", Call(<<stub>> \o args), IF r.kind = "throw" THEN r.val ELSE None, FALSE)
        /\ Transmit(e, r.m.out)
        /\ UNCHANGED injected

InvokeStub(e, stub, args) == InvokeStubVia(e, stub, args, Undefined)

ReleaseCallback(e, callback) ==
    LET m == Self(e, 0)
        g == getPrivate(m)
        r == releaseCallback(m, callback, FALSE)
    IN  /\ posts[e] < MaxPost
        /\ IF g # None THEN InstallMsg(e, m, "releaseCallback", Call(<<callback>>), g, FALSE) /\ UNCHANGED chan
           ELSE InstallMsg(e, r.m, "releaseCallback", Call(<<callback>>), r.exc, FALSE) /\ Transmit(e, r.m.out)
        /\ UNCHANGED injected

\* a callback call that invokes a stub draws an id: it waits while lastId is at its bound
WithinIds(e, msg) ==
    IF msg.ctl[2] = 0 /\ msg.ctl[3] \in DOMAIN id2cb[e]
    THEN (IF id2cb[e][msg.ctl[3]][1] = "stub" THEN lastId[e] < MaxId ELSE TRUE)
    ELSE TRUE

\* the adapter hands the next message of the channel to onData
Delivered(e, r, msg, reenter) ==
    /\ (IF reenter = 0 THEN TRUE ELSE r.m.destroyCalls > 1)
    /\ InstallMsg(e, r.m, "onData", msg, r.exc, r.ret)
    /\ chan' = [x \in Ports |->
                  IF x = e THEN (IF linked THEN Tail(chan[e]) ELSE chan[e])
                  ELSE IF linked /\ destroyCalls[x] = 0 THEN chan[x] \o Wire(r.m.out)
                  ELSE chan[x]]

Deliver(e, reenter) ==
    /\ chan[e] # <<>>
    /\ destroyCalls[e] = 0
    /\ WithinIds(e, Head(chan[e]))
    /\ \E m \in {Self(e, reenter)} : \E r \in {onData(m, Head(chan[e]))} :
            Delivered(e, r, Head(chan[e]), reenter)
    /\ UNCHANGED injected

\* the adapter hands a message of an arbitrary peer to onData
Receive(e, msg, reenter) ==
    /\ ~linked
    /\ injected < MaxInject
    /\ destroyCalls[e] = 0
    /\ WithinIds(e, msg)
    /\ \E m \in {Self(e, reenter)} : \E r \in {onData(m, msg)} :
            Delivered(e, r, msg, reenter)
    /\ injected' = injected + 1

\* an adapter that is still attached after the endpoint was destroyed (its
\* destroy() threw before it detached, or it does not detach at all) hands a
\* message to onData
ReceiveLate(e, msg) ==
    /\ ~linked
    /\ injected < MaxInject
    /\ ~public[e] /\ destroyCalls[e] > 0
    /\ \E m \in {Self(e, 0)} : \E r \in {onData(m, msg)} :
            Delivered(e, r, msg, 0)
    /\ injected' = injected + 1

\* a promise returned by a handler settles and its continuation runs
Settled(e, d, m, o) ==
    IF d.id = 0
    THEN /\ InstallMsg(e, [m EXCEPT !.reports = IF o[1] = "reject" THEN 1 ELSE 0], "then",
                       Msg("", d.id, Undefined), None, FALSE)
         /\ UNCHANGED chan
    ELSE \E a \in {answer(m, [Msg("", 0, Undefined) EXCEPT !.reply = d.reply],
                           IF o[1] = "resolve" THEN d.id ELSE -d.id, o[2])} :
            /\ InstallMsg(e, a.m, "then", Msg("", d.id, Undefined), a.exc, FALSE)
            /\ Transmit(e, a.m.out)

Settle(e, i) ==
    /\ (IF deferred[e][i].await = 0 THEN TRUE
        ELSE promises[e][deferred[e][i].await].settled # <<>>)
    /\ \E d \in {deferred[e][i]} :
       \E m \in {[Self(e, 0) EXCEPT !.deferred = SubSeq(@, 1, i - 1) \o SubSeq(@, i + 1, Len(@))]} :
       \E o \in {IF d.await = 0 THEN d.outcome ELSE promises[e][d.await].settled[1]} :
            Settled(e, d, m, o)
    /\ UNCHANGED injected

\* port.destroy(reason) by the application
Destroyed(e, m, op, reason, reenter) ==
    /\ (IF reenter = 0 THEN TRUE
        ELSE IF reenter = Throws THEN m.destroyCalls > destroyCalls[e]
        ELSE m.destroyCalls > destroyCalls[e] + 1)
    /\ InstallMsg(e, m, op, Call(<<reason>>), m.escaped, FALSE)
    /\ Transmit(e, m.out)

Destroy(e, reason, reenter) ==
    /\ \E m0 \in {Self(e, reenter)} : \E m \in {PublicDestroy(m0, reason)} :
            Destroyed(e, m, "destroy", reason, reenter)
    /\ UNCHANGED injected

\* the adapter's onEnd callback: the transport closed
OnEnd(e, reason, reenter) ==
    /\ \E m0 \in {Self(e, reenter)} : \E m \in {destroy(m0, reason)} :
            Destroyed(e, m, "onEnd", reason, reenter)
    /\ UNCHANGED injected

\* the getter port.ended, line 476: the stored value, true once destroyed and
\* the promise before; ev.ret tells which
Ended(e) ==
    /\ Install(e, Self(e, 0), "ended", None, ended[e])
    /\ UNCHANGED <<chan, injected>>

\* ---------------------------------------------- two endpoints, A calls B
Init == InitPort /\ linked = TRUE

Next ==
    \/ \E name \in {"sum", "fail", "/^s/"} : \E h \in HandlerOf(name) : AddHandler("B", name, h)
    \/ \E name \in {"sum", "fail", "missing"} : Request("A", Str(name), <<Json(2)>>)
    \/ \E e \in Ports : Deliver(e, 0)
    \/ \E i \in 1..Len(deferred["B"]) : Settle("B", i)
    \/ \E e \in Ports : Destroy(e, Undefined, 0)

Spec == Init /\ [][Next]_vars

\* the adapters deliver what was sent, and the promises of the handlers settle
FairSpec ==
    /\ Spec
    /\ \A e \in Ports : WF_vars(Deliver(e, 0))
    /\ WF_vars(\E i \in 1..Len(deferred["B"]) : Settle("B", i))

\* -------------------------- two endpoints, A passes callbacks, B calls them
NextCallback ==
    \/ AddHandler("B", "sum", <<"ret", Json(5)>>)
    \/ \E f \in FnNames : Request("A", Str("sum"), <<Fn("A", f)>>)
    \/ \E stub \in made["B"] : InvokeStub("B", stub, <<Json(5)>>)
    \/ \E c \in DOMAIN cb2id["A"] : ReleaseCallback("A", c)
    \/ \E e \in Ports : Deliver(e, 0)
    \/ \E e \in Ports : Destroy(e, Undefined, 0)

SpecCallback == Init /\ [][NextCallback]_vars

FairSpecCallback ==
    /\ SpecCallback
    /\ \A e \in Ports : WF_vars(Deliver(e, 0))

\* --------------------------- one endpoint, the peer sends whatever it likes
\* what an arbitrary peer may deliver to onData
Inbound ==
    {Msg("sum", 7, Arr(<<Keyed1("b1")>>)), Msg("sum", 0, Arr(<<Json(2)>>))}
    \cup {CtlMsg(8, 0, "a1", Arr(<<Json(1)>>))}
    \cup {CtlMsg(0, 1, "bye", Arr(<<>>)), CtlMsg(0, 2, "a1", Undefined)}
    \cup {Msg("", id, Arr(<<Json(5)>>)) : id \in {2, -2, 3}}
    \cup {Msg("", 2, Arr(<<Keyed3>>))}

InitOne == InitPort /\ linked = FALSE

NextPort ==
    \/ \E name \in {"sum", "bye"} : \E h \in HandlerOf(name) : AddHandler("A", name, h)
    \/ AddHandlers("A", "s", << <<Str("um"), <<"ret", Json(5)>>>> >>)
    \/ RemoveHandler("A", "sum")
    \/ HasHandler("A", "sum")
    \/ IsRequest("A")
    \/ \E args \in {<<>>, <<Fn("A", "f")>>} : Request("A", Str("sum"), args)
    \/ \E stub \in made["A"] : InvokeStub("A", stub, <<Json(5)>>)
    \/ Post("A", Str("sum"), <<>>)
    \/ AfterEnded("A", "bye", <<>>)
    \/ \E c \in DOMAIN cb2id["A"] : ReleaseCallback("A", c)
    \/ \E msg \in Inbound, n \in 0..MaxNest : Receive("A", msg, n)
    \/ \E i \in 1..Len(deferred["A"]) : Settle("A", i)
    \/ \E n \in 0..MaxNest : Destroy("A", Undefined, n)
    \/ \E n \in 0..MaxNest : OnEnd("A", RangeBad, n)

SpecPort == InitOne /\ [][NextPort]_vars

\* ------------------ one endpoint: the handler registry and the handler flag
\* the message a synchronous peer posts back while a handler is still running
Pong == Msg("um", 0, Arr(<<>>))

\* the handlers the application registers under each name or pattern
RegistryOf(name) ==
    CASE name = "sum"  -> {<<"ask">>, <<"throw", RangeBad>>, <<"nest", Pong>>}
      [] name = "um"   -> {<<"ask">>}
      [] name = "/^s/" -> {<<"ret", Json(5)>>}
      [] OTHER         -> {<<"ret", Json(6)>>}

\* the objects the application passes to addHandlers: <<prefix, entries>>
Batches ==
    {<<"s", << <<Str("um"), <<"ret", Json(5)>>>> >> >>,
     <<"",  << <<Str("um"), <<"ret", Json(6)>>>>, <<Str(""), <<"ret", Json(6)>>>> >> >>,
     <<"",  << <<Str("um"), <<"ret", Json(6)>>>>, <<Str("x"), Json(1)>>,
               <<Str("sum"), <<"ret", Json(6)>>>> >> >>}

\* the calls and posts the peer sends
InboundCalls == {Msg("sum", id, Arr(<<Json(2)>>)) : id \in {0, 7}}

NextHandlers ==
    \/ \E name \in {"sum", "um", "/^s/", "/um/"} : \E h \in RegistryOf(name) : AddHandler("A", name, h)
    \/ \E b \in Batches : AddHandlers("A", b[1], b[2])
    \/ \E name \in {"sum", "/^s/"} : RemoveHandler("A", name)
    \/ HasHandler("A", "sum")
    \/ IsRequest("A")
    \/ \E msg \in InboundCalls : Receive("A", msg, 0)
    \/ Destroy("A", Undefined, 0)

SpecHandlers == InitOne /\ [][NextHandlers]_vars

\* --------------------------------- one endpoint: calls and posts, both ways
\* what the handler of "sum" may do
Behaviours ==
    {<<"ret", Json(5)>>, <<"throw", RangeBad>>, <<"resolve", Json(5)>>, <<"reject", MyBad>>}

\* the names the application passes to request() and post()
CallNames == {Str("sum"), Str(""), Json(5)}
PostNames == {Str("sum"), Json(5)}

\* the posts and the call the peer sends
InboundPosts ==
    {Msg("sum", 0, Arr(<<Json(2)>>)), Msg("missing", 0, Arr(<<Json(2)>>)),
     Msg("sum", 7, Arr(<<Json(2)>>))}
    \cup {Msg("sum", id, Arr(<<Keyed3>>)) : id \in {0, 7}}

NextCalls ==
    \/ \E h \in Behaviours : AddHandler("A", "sum", h)
    \/ \E name \in CallNames : Request("A", name, <<Json(2)>>)
    \/ \E name \in PostNames : \E args \in {<<>>, <<Fn("A", "f")>>} : Post("A", name, args)
    \/ \E msg \in InboundPosts : Receive("A", msg, 0)
    \/ \E i \in 1..Len(deferred["A"]) : Settle("A", i)
    \/ Destroy("A", Undefined, 0)

SpecCalls == InitOne /\ [][NextCalls]_vars

\* ------------------------ one endpoint: deferred posts and the end of the port
\* the handlers the application registers for the deferred posts of its peer
CleanupOf(name) ==
    CASE name = "bye" -> {<<"destroy">>, <<"ret", Json(6)>>}
      [] OTHER        -> {<<"ret", Json(5)>>, <<"throw", RangeBad>>}

\* what the adapter does in its destroy: return, raise onEnd, or throw
AdapterEnds == {Throws} \cup (0..MaxNest)

\* what the peer's afterEnded("bye") and afterEnded("log", 1) deliver, and a post
InboundRecords ==
    {CtlMsg(0, 1, "bye", Arr(<<>>)), CtlMsg(0, 1, "log", Arr(<<Json(1)>>)),
     Msg("log", 0, Arr(<<Json(1)>>))}

NextEnd ==
    \/ \E name \in {"bye", "log"} : \E h \in CleanupOf(name) : AddHandler("A", name, h)
    \/ \E msg \in InboundRecords : Receive("A", msg, 0)
    \/ Ended("A")
    \/ \E n \in AdapterEnds : Destroy("A", Undefined, n)
    \/ \E n \in AdapterEnds : OnEnd("A", RangeBad, n)

SpecEnd == InitOne /\ [][NextEnd]_vars

\* ------------------------- one endpoint: what the adapter supplies to a port
\* the receivers the application registers its handlers with
ThisArgs == {"undefined", "null", "obj"}

\* calls and posts of "sum" that the adapter delivers with and without a
\* fallback receiver (the 4th argument of onData)
InboundVia ==
    {[Msg("sum", id, Arr(<<Json(1)>>)) EXCEPT !.altThis = a] : id \in {0, 7}, a \in {"undefined", "alt"}}
    \cup {Msg("sum", 0, Arr(<<Keyed1("b1")>>))}

\* what the send of an adapter returns: nothing, or the reply it obtained
AdapterAnswers == {Undefined, Null, Json(9)}

NextAdapter ==
    \/ \E name \in {"sum", "/^s/"}, t \in ThisArgs : AddHandlerWith("A", name, <<"ret", Json(5)>>, t)
    \/ RemoveHandler("A", "sum")
    \/ \E msg \in InboundVia : Receive("A", msg, 0)
    \/ \E given \in AdapterAnswers : RequestVia("A", Str("sum"), <<Json(2)>>, given)
    \/ \E stub \in made["A"], given \in AdapterAnswers : InvokeStubVia("A", stub, <<Json(5)>>, given)

SpecAdapter == InitOne /\ [][NextAdapter]_vars

\* ---------------------------- one endpoint: values through the value mapper
\* JSON-compatible values, among them objects that have a '' property of their
\* own: { '': 0, raw: 1 }, { '': 1, cb: 'x' }, { '': 2, name, message }, { '': 3 }
JsonValues ==
    {Json(1), Str("a"), Null, Bool(TRUE), Arr(<<Json(1)>>),
     Keyed0(Json(1)), Keyed1("x"), Keyed2("Error", "bad"), Keyed3}

\* what arrives of value when the peer of e passes it to mapValue and its
\* adapter transports the result as JSON
Wired(e, value) == JsonClone(mapValue(Self(Peer(e), 0), value).v)

\* payloads an arbitrary peer sends without the mapper
Unmapped == {Keyed3}

NextValues ==
    \/ AddHandler("A", "sum", <<"ret", Json(5)>>)
    \/ Request("A", Str("sum"), <<>>)
    \/ \E value \in JsonValues, id \in {0, 7} : Receive("A", Msg("sum", id, Arr(<<Wired("A", value)>>)), 0)
    \/ \E value \in JsonValues : Receive("A", Msg("", 2, Arr(<<Wired("A", value)>>)), 0)
    \/ \E raw \in Unmapped, id \in {7, 2} :
            Receive("A", Msg(IF id = 7 THEN "sum" ELSE "", id, Arr(<<raw>>)), 0)

SpecValues == InitOne /\ [][NextValues]_vars

\* ------------------------- one endpoint: the replies to the calls it serves
\* calls 7 and 8 of the peer, delivered with and without a reply function
\* (the 5th argument of onData)
InboundAsks ==
    {[Msg("sum", id, Arr(<<Json(2)>>)) EXCEPT !.reply = r] : id \in {7, 8}, r \in BOOLEAN}

NextReplies ==
    \/ \E h \in Behaviours : AddHandler("A", "sum", h)
    \/ RemoveHandler("A", "sum")
    \/ \E msg \in InboundAsks : Receive("A", msg, 0)
    \/ \E i \in 1..Len(deferred["A"]) : Settle("A", i)
    \/ Destroy("A", Undefined, 0)

SpecReplies == InitOne /\ [][NextReplies]_vars

\* the promises of the handlers settle
FairSpecReplies ==
    /\ SpecReplies
    /\ WF_vars(\E i \in 1..Len(deferred["A"]) : Settle("A", i))

\* ------------------------------ one endpoint: messages flagged as optional
\* calls and posts of a name that may have a handler ("sum") and of one that
\* never has ("missing"), with a plain argument or with a callback of the
\* peer, flagged optional (the 6th argument of onData) or not
InboundOptional ==
    {[Msg(name, id, Arr(<<a>>)) EXCEPT !.optional = o] :
        name \in {"sum", "missing"}, id \in {0, 7}, a \in {Json(2), Keyed1("b1")}, o \in BOOLEAN}

NextOptional ==
    \/ \E name \in {"sum", "/^s/"} : AddHandler("A", name, <<"ret", Json(5)>>)
    \/ \E name \in {"sum", "/^s/"} : RemoveHandler("A", name)
    \/ Request("A", Str("sum"), <<>>)
    \/ \E msg \in InboundOptional : Receive("A", msg, 0)
    \/ Destroy("A", Undefined, 0)

SpecOptional == InitOne /\ [][NextOptional]_vars

\* ------------------- one endpoint: an adapter that acts from inside its send
\* what the adapter does before its send returns
Durings == {None, <<"reply", Json(5)>>, <<"end", Null>>}

NextSync ==
    \/ \E d \in Durings : \E args \in {<<>>, <<Fn("A", "f")>>} : RequestOn("A", Str("sum"), args, Undefined, d)
    \/ \E id \in {2, -3} : Receive("A", Msg("", id, Arr(<<Json(5)>>)), 0)
    \/ \E c \in DOMAIN cb2id["A"] : ReleaseCallback("A", c)
    \/ \E n \in 0..MaxNest : Destroy("A", Undefined, n)

SpecSync == InitOne /\ [][NextSync]_vars

\* ------------------------- one endpoint: messages that arrive after destroy
\* what the adapter may still deliver; with and without a reply function
InboundLate ==
    {[msg EXCEPT !.reply = r] :
        msg \in {Msg("sum", 7, Arr(<<Json(2)>>)), Msg("sum", 0, Arr(<<Json(2)>>)),
                 CtlMsg(8, 0, "a1", Arr(<<Json(1)>>)), CtlMsg(0, 1, "bye", Arr(<<>>)),
                 CtlMsg(0, 2, "a1", Undefined), Msg("", 2, Arr(<<Json(5)>>))},
        r \in BOOLEAN}

NextLate ==
    \/ \E name \in {"sum", "/^s/"} : AddHandler("A", name, <<"ret", Json(5)>>)
    \/ Request("A", Str("sum"), <<Fn("A", "f")>>)
    \/ \E msg \in InboundLate : Receive("A", msg, 0)
    \/ \E n \in {Throws, 0} : Destroy("A", Undefined, n)
    \/ \E msg \in InboundLate : ReceiveLate("A", msg)

SpecLate == InitOne /\ [][NextLate]_vars

\* ------------------ two endpoints: B hands the stubs it got back to A
NextEcho ==
    \/ AddHandler("B", "sum", <<"ret", Json(5)>>)
    \/ AddHandler("A", "echo", <<"ret", Json(6)>>)
    \/ \E f \in FnNames : Request("A", Str("sum"), <<Fn("A", f)>>)
    \/ \E stub \in made["B"] : Request("B", Str("echo"), <<stub>>)
    \/ \E stub \in made["B"] : InvokeStub("B", stub, <<stub>>)
    \/ \E c \in DOMAIN cb2id["A"] : ReleaseCallback("A", c)
    \/ \E e \in Ports : Deliver(e, 0)
    \/ \E e \in Ports : Destroy(e, Undefined, 0)

SpecEcho == Init /\ [][NextEcho]_vars

\* ================================================================= claims
CallIds      == 2..MaxId
Abs(n)       == IF n < 0 THEN -n ELSE n
AnyDestroyed == \E e \in Ports : ~public[e]
\* how call k of e was issued, and the outcomes its promise was settled with
Outcome(e, k) == IF k \in DOMAIN promises[e] THEN promises[e][k].settled ELSE <<>>
NameOf(e, k)  == IF k \in DOMAIN promises[e] THEN promises[e][k].name ELSE ""
HowOf(e, k)   == IF k \in DOMAIN promises[e] THEN promises[e][k].how ELSE ""
ArgsOf(e, k)  == IF k \in DOMAIN promises[e] THEN promises[e][k].args ELSE <<>>
\* what onData of e ran for the inbound call k
NoService     == [n |-> 0, target |-> None, args |-> <<>>, kind |-> "", val |-> None,
                  this |-> "undefined"]
Service(e, k) == IF k \in DOMAIN served[e] THEN served[e][k] ELSE NoService

\* the call k of A is on its way to B
InFlight(k) == \E i \in 1..Len(chan["B"]) : chan["B"][i].id = k /\ chan["B"][i].name # ""

\* B has an exact or a pattern handler for name
Handled(e, name) ==
    \/ name \in DOMAIN handlers[e]
    \/ \E i \in 1..Len(wildcards[e]) : test(wildcards[e][i][1], name)

\* the handler B ran for call k returned a value, directly or deferred
Returned(k) ==
    \/ Service("B", k).kind = "value"
    \/ Service("B", k).kind = "promise" /\ Service("B", k).val[1] = "resolve"
Result(k) == IF Service("B", k).kind = "promise" THEN Service("B", k).val[2] ELSE Service("B", k).val

\* the handler B ran for call k threw, or its deferred result failed
Failed(k) ==
    \/ Service("B", k).kind = "throw"
    \/ Service("B", k).kind = "promise" /\ Service("B", k).val[1] = "reject"
Raised(k) == IF Service("B", k).kind = "promise" THEN Service("B", k).val[2] ELSE Service("B", k).val

\* ----------------------------------------------------------------- C1
\* C1: a reply with id N or -N takes exactly call N out of the request table
\* and settles it (resolved for N, rejected for -N, with the decoded payload);
\* every other call, pending or not, is left as it was.
C1_ReplySettlesItsCall ==
    [][(ev'.op = "onData" /\ ev'.msg.name = "" /\ ev'.msg.id # 0) =>
        LET e == ev'.at
            n == Abs(ev'.msg.id)
        IN  /\ requests'[e] = requests[e] \ {n}
            /\ DOMAIN promises'[e] = DOMAIN promises[e]
            /\ \A k \in DOMAIN promises[e] \ {n} : promises'[e][k] = promises[e][k]
            /\ n \in DOMAIN promises[e] /\ n \notin requests[e] => promises'[e][n] = promises[e][n]
            /\ n \in requests[e] /\ ev'.msg.args = Arr(<<Json(5)>>) =>
                    promises'[e][n].settled =
                        <<<<IF ev'.msg.id < 0 THEN "reject" ELSE "resolve", Json(5)>>>>
    ]_vars

\* two calls are outstanding and the reply to the later one arrived first
C1_Witness ==
    /\ ev.op = "onData" /\ ev.msg.id = 3 /\ ev.msg.name = ""
    /\ requests["A"] = {2}
    /\ 3 \in DOMAIN promises["A"]
    /\ Outcome("A", 3) = <<<<"resolve", Json(5)>>>>
    /\ Outcome("A", 2) = <<>>

\* ----------------------------------------------------------------- C2
\* C2: the step that destroys an endpoint rejects every call that was pending
\* (issued by request() or by a stub) exactly once with the port-destroyed
\* error, touches no other call, and leaves the request table empty.
C2_DestroyRejectsPending ==
    [][\A e \in Ports : (public[e] /\ ~public'[e]) =>
        /\ requests'[e] = {}
        /\ \A k \in requests[e] : promises'[e][k].settled = <<<<"reject", PortDestroyed>>>>
        /\ \A k \in DOMAIN promises[e] \ requests[e] : promises'[e][k] = promises[e][k]
    ]_vars

\* an endpoint was destroyed with a request() call and a stub call pending
C2_Witness ==
    /\ ev.op \in {"destroy", "onEnd"} /\ ev.open /\ ~public["A"]
    /\ \E j, k \in DOMAIN promises["A"] :
        /\ promises["A"][j].how = "request" /\ promises["A"][k].how = "stub"
        /\ Outcome("A", j) = <<<<"reject", PortDestroyed>>>>
        /\ Outcome("A", k) = <<<<"reject", PortDestroyed>>>>

\* ----------------------------------------------------------------- C3
\* C3: a destroy() or onEnd on an endpoint whose destroy has completed changes
\* nothing of the endpoint (no handler runs, no record is replayed, the adapter
\* is not destroyed again), throws nothing, reports nothing and sends nothing.
C3_DestroyIdempotent ==
    [][(ev'.op \in {"destroy", "onEnd"} /\ ~public[ev'.at]) =>
        /\ UNCHANGED <<endpoint, chan>>
        /\ ev'.exc = None /\ ev'.reports = 0 /\ ev'.out = <<>>
    ]_vars

\* a destroy on an endpoint that was already destroyed and holds a queued record
C3_Witness ==
    /\ ev.op = "destroy" /\ ~ev.open
    /\ endQueue["A"] # <<>>
    /\ destroyCalls["A"] = 1

\* ----------------------------------------------------------------- C4
\* C4: over any sequence and nesting of destroy() and onEnd on one endpoint the
\* adapter's destroy is invoked exactly once.
C4_AdapterDestroyedOnce ==
    \A e \in Ports : destroyCalls[e] = IF public[e] THEN 0 ELSE 1

\* ----------------------------------------------------------------- C5
PublicOps ==
    {"addHandler", "addHandlers", "removeHandler", "hasHandler", "request", "post",
     "afterEnded", "isRequest", "releaseCallback"}

\* C5: on a destroyed endpoint every public operation other than destroy
\* throws, sends nothing and changes nothing; a destroyed endpoint stays
\* destroyed.
C5_DestroyedPortRefuses ==
    [][/\ (ev'.op \in PublicOps /\ ~public[ev'.at]) =>
            /\ ev'.exc = Disconnected
            /\ ev'.out = <<>>
            /\ UNCHANGED <<endpoint, chan>>
       /\ \A e \in Ports : ~public[e] => ~public'[e]
    ]_vars

\* request() was called on a destroyed endpoint
C5_Witness ==
    /\ ev.op = "request" /\ ~ev.open /\ ev.exc = Disconnected
    /\ ~public["A"]

\* ----------------------------------------------------------------- C6
\* C6: a call that is on its way to a peer that has a handler for its name
\* leads to the caller's promise being resolved, once, with exactly the value
\* the handler returned (directly or deferred), unless the handler failed or
\* an endpoint is destroyed first.
C6_CallResolvesToHandlerValue ==
    \A k \in CallIds :
        (/\ k \in requests["A"]
         /\ InFlight(k)
         /\ Handled("B", NameOf("A", k)))
        ~> (\/ AnyDestroyed
            \/ Failed(k)
            \/ Returned(k) /\ Outcome("A", k) = <<<<"resolve", Result(k)>>>>)

\* a deferred handler result that itself has a '' property arrived unchanged
C6_Witness ==
    /\ ~AnyDestroyed
    /\ \E k \in DOMAIN served["B"] :
        /\ served["B"][k].kind = "promise"
        /\ served["B"][k].val = <<"resolve", Keyed1("x")>>
        /\ k \in DOMAIN promises["A"]
        /\ Outcome("A", k) = <<<<"resolve", Keyed1("x")>>>>

\* ----------------------------------------------------------------- C7
\* C7: an endpoint that is handed a call for which it has neither an exact nor
\* a pattern handler answers -N with the no-such-handler error, and a call to
\* a name the peer never handles leads to the caller's promise being rejected
\* with that error (never resolved), unless an endpoint is destroyed first.
C7_NoHandlerRejects ==
    /\ [][(/\ ev'.op = "onData" /\ ev'.at = "B" /\ public["B"]
           /\ ev'.msg.name # "" /\ ev'.msg.id > 0
           /\ ~Handled("B", ev'.msg.name)) =>
            /\ ev'.out = <<Msg("", -ev'.msg.id,
                               Arr(<<Keyed2("Error", NoSuchHandler(ev'.msg.name)[4])>>))>>
            /\ served'["B"] = served["B"]
         ]_vars
    /\ \A k \in CallIds :
        (k \in requests["A"] /\ NameOf("A", k) = "missing")
        ~> (AnyDestroyed \/ Outcome("A", k) = <<<<"reject", NoSuchHandler("missing")>>>>)

\* a call to a name without handler was rejected
C7_Witness ==
    /\ ~AnyDestroyed
    /\ \E k \in DOMAIN promises["A"] :
        /\ promises["A"][k].name = "missing"
        /\ k \notin DOMAIN served["B"]
        /\ Outcome("A", k) = <<<<"reject", NoSuchHandler("missing")>>>>

\* ----------------------------------------------------------------- C8
\* the error unmapValue builds from the name and message of error: an instance
\* of the global class of that name, or of Error if there is none
Rebuilt(error) ==
    IF ~IsError(error) THEN error
    ELSE Err(IF error[3] \in GlobalClasses THEN error[3] ELSE "Error", error[3], error[4])

\* C8: a handler that throws an error, or whose deferred result fails with
\* one, leads to the caller's promise being rejected, never resolved, with an
\* error of the same name and message whose class is the global class of that
\* name, or Error if there is no such class, unless an endpoint is destroyed
\* first.
C8_FailureRejectsWithNameAndMessage ==
    \A k \in CallIds :
        Failed(k)
        ~> (AnyDestroyed \/ Outcome("A", k) = <<<<"reject", Rebuilt(Raised(k))>>>>)

\* the failure of a handler with an error class of its own has reached the caller
C8_Witness ==
    /\ ~AnyDestroyed
    /\ \E k \in DOMAIN served["B"] :
        /\ Failed(k) /\ Raised(k) = MyBad
        /\ k \in DOMAIN promises["A"]
        /\ Outcome("A", k) = <<<<"reject", Err("Error", "MyError", "bad")>>>>

\* C8 as stated: the rejection reason has the class of the error the handler raised
C8_SameClass ==
    \A k \in CallIds :
        (Failed(k) /\ Outcome("A", k) # <<>>) =>
            Outcome("A", k) = <<<<"reject", Raised(k)>>>>

\* ----------------------------------------------------------------- C9
\* the functions A passed where B's handlers received a stub with callback id c
Originals(c) ==
    {f \in {Fn("A", n) : n \in FnNames} :
        \E r \in DOMAIN served["B"] \cap DOMAIN promises["A"] :
            \E i \in 1..Len(served["B"][r].args) :
                /\ i <= Len(promises["A"][r].args)
                /\ promises["A"][r].args[i] = f
                /\ served["B"][r].args[i][1] = "stub"
                /\ served["B"][r].args[i][3] = c}

\* how a call of the function body ends for the caller of the stub
Expected(f) ==
    IF f[1] # "fn" THEN None
    ELSE IF FnBody[f[3]][1] = "ret" THEN <<"resolve", FnBody[f[3]][2]>>
    ELSE <<"reject", FnBody[f[3]][2]>>

\* C9: a stub invocation leads to exactly one invocation of the function the
\* stub stands for, with the arguments the stub was called with, and to the
\* stub's promise being settled with what the function returned or threw,
\* unless the function was released or an endpoint is destroyed first.
C9_StubInvokesOriginalOnce ==
    \A k \in CallIds :
        (HowOf("B", k) = "stub")
        ~> (\/ AnyDestroyed
            \/ NameOf("B", k) \notin DOMAIN id2cb["A"]
            \/ /\ Service("A", k).n = 1
               /\ Originals(NameOf("B", k)) = {Service("A", k).target}
               /\ Service("A", k).args = ArgsOf("B", k)
               /\ Outcome("B", k) = <<Expected(Service("A", k).target)>>)

\* a stub was invoked, the function behind it threw, the stub's promise rejected
C9_Witness ==
    /\ ~AnyDestroyed
    /\ \E k \in DOMAIN promises["B"] :
        /\ promises["B"][k].how = "stub"
        /\ k \in DOMAIN served["A"]
        /\ served["A"][k].n = 1
        /\ served["A"][k].target = Fn("A", "g")
        /\ Outcome("B", k) = <<<<"reject", RangeBad>>>>

\* ---------------------------------------------------------------- C10
\* the two directions of the id/function mapping of e agree
Interned(e) ==
    /\ \A f \in DOMAIN cb2id[e] :
        cb2id[e][f] \in DOMAIN id2cb[e] /\ id2cb[e][cb2id[e][f]] = f
    /\ \A c \in DOMAIN id2cb[e] :
        id2cb[e][c] \in DOMAIN cb2id[e] /\ cb2id[e][id2cb[e][c]] = c

\* the positions of the arguments args that hold a function / a callback id
FnAt(args)  == {i \in 1..Len(args) : IsFunction(args[i])}
CbAt(args)  == {i \in 1..Len(args) : args[i][1] = "keyed" /\ args[i][2] = 1}

\* C10: after every operation that leaves the endpoint open the two maps
\* agree; a function that stays registered keeps its id and an id that stays
\* registered keeps its function or stub; request() encodes a function under
\* the id registered for it, and a callback id in a delivered call is decoded
\* to the stub registered for it.
C10_CallbackInterning ==
    [][\A e \in Ports : public'[e] =>
        /\ Interned(e)'
        /\ \A f \in DOMAIN cb2id[e] \cap DOMAIN cb2id'[e] : cb2id'[e][f] = cb2id[e][f]
        /\ \A c \in DOMAIN id2cb[e] \cap DOMAIN id2cb'[e] : id2cb'[e][c] = id2cb[e][c]
        /\ (ev'.at = e /\ ev'.op = "request" /\ ev'.exc = None) =>
            \A i \in FnAt(promises'[e][lastId'[e]].args) :
                ev'.out[1].args[2][i] = Keyed1(cb2id'[e][promises'[e][lastId'[e]].args[i]])
        /\ (ev'.at = e /\ ev'.op = "onData" /\ ev'.msg.name \in DOMAIN handlers[e]
                /\ served'[e] # served[e]) =>
            \A i \in CbAt(ev'.msg.args[2]) :
                served'[e][ev'.msg.id].args[i] = id2cb'[e][ev'.msg.args[2][i][3]]
    ]_vars

\* the same function was sent twice under one id, and the id of the peer's
\* function was decoded to a stub
C10_Witness ==
    /\ public["A"]
    /\ ev.op = "request" /\ ev.out # <<>>
    /\ lastId["A"] = 3
    /\ promises["A"][2].args = <<Fn("A", "f")>>
    /\ promises["A"][3].args = <<Fn("A", "f")>>
    /\ ev.out[1].args = Arr(<<Keyed1("a1")>>)
    /\ "b1" \in DOMAIN id2cb["A"] /\ id2cb["A"]["b1"][1] = "stub"

\* ---------------------------------------------------------------- C11
\* C11: releaseCallback(f) on an open endpoint that holds a binding for f
\* removes the binding in both directions and hands exactly one release
\* notice [0, 2, id] to the adapter; the endpoint that is handed a release
\* notice removes its own binding for that id, queues nothing and sends
\* nothing.
C11_ReleaseForgetsBothSides ==
    [][/\ (ev'.op = "releaseCallback" /\ public[ev'.at]
            /\ ev'.msg.args[2][1] \in DOMAIN cb2id[ev'.at]) =>
            LET e == ev'.at
                f == ev'.msg.args[2][1]
            IN  /\ f \notin DOMAIN cb2id'[e]
                /\ cb2id[e][f] \notin DOMAIN id2cb'[e]
                /\ ev'.out = <<CtlMsg(0, 2, cb2id[e][f], Undefined)>>
       /\ (ev'.op = "onData" /\ public[ev'.at] /\ ev'.msg.name = "" /\ ev'.msg.id = 0
            /\ ev'.msg.ctl[2] = 2) =>
            LET e == ev'.at
            IN  /\ ev'.msg.ctl[3] \notin DOMAIN id2cb'[e]
                /\ \A f \in DOMAIN cb2id'[e] : cb2id'[e][f] # ev'.msg.ctl[3]
                /\ endQueue'[e] = endQueue[e]
                /\ ev'.out = <<>>
    ]_vars

\* ---------------------------------------------------------------- C12
\* C12: addHandler with an exact name that is already registered throws the
\* duplicate-handler error and changes neither the exact handlers nor the
\* patterns; no addHandler, failed or not, changes the handler or the
\* receiver registered under another exact name; and a call that arrives for
\* a registered exact name runs the handler registered under it.
C12_DuplicateNameRefused ==
    [][\A e \in Ports : (ev'.at = e /\ public[e]) =>
        /\ (ev'.op = "addHandler" /\ ev'.msg.args[2][1][1] = "str"
                /\ ev'.msg.args[2][1][2] \in DOMAIN handlers[e]) =>
            /\ ev'.exc = DuplicateHandler
            /\ handlers'[e] = handlers[e]
            /\ wildcards'[e] = wildcards[e]
        /\ ev'.op = "addHandler" =>
            \A n \in DOMAIN handlers[e] :
                n \in DOMAIN handlers'[e] /\ handlers'[e][n] = handlers[e][n]
        /\ (ev'.op = "onData" /\ ev'.msg.name \in DOMAIN handlers[e]) =>
            /\ ev'.msg.id \in DOMAIN served'[e]
            /\ served'[e][ev'.msg.id].target = handlers[e][ev'.msg.name][1]
    ]_vars

\* a second handler for "sum" was refused and the first is still registered
C12_Witness ==
    /\ ev.op = "addHandler" /\ ev.open /\ ev.exc = DuplicateHandler
    /\ ev.msg.args[2] = <<Str("sum"), <<"throw", RangeBad>>>>
    /\ "sum" \in DOMAIN handlers["A"]
    /\ handlers["A"]["sum"] = <<<<"ask">>, "undefined">>

\* ---------------------------------------------------------------- C13
\* the entries of a batch whose value is a function, and the names they get
FunctionEntries(entries) == SelectSeq(entries, LAMBDA en : en[2][1] \in Callables)
BadName(en)              == en[1][1] # "str" \/ en[1][2] = ""

\* C13: an addHandlers that throws leaves the exact handlers and the patterns
\* exactly as they were; it throws whenever a function entry has an empty or
\* non-string name; an addHandlers that returns has registered every function
\* entry of the batch under prefix + name, has registered nothing for the
\* other entries, and has left the patterns alone.
C13_BatchAllOrNothing ==
    [][\A e \in Ports : (ev'.at = e /\ public[e] /\ ev'.op = "addHandlers") =>
        LET prefix == ev'.msg.args[2][1][2]
            add    == FunctionEntries(ev'.msg.args[2][2][2])
            names  == {Concat(prefix, add[i][1][2]) : i \in 1..Len(add)}
        IN  /\ wildcards'[e] = wildcards[e]
            /\ ev'.exc # None => handlers'[e] = handlers[e]
            /\ (\E i \in 1..Len(add) : BadName(add[i])) => ev'.exc # None
            /\ ev'.exc = None =>
                /\ \A i \in 1..Len(add) :
                      /\ Concat(prefix, add[i][1][2]) \in DOMAIN handlers'[e]
                      /\ handlers'[e][Concat(prefix, add[i][1][2])] = <<add[i][2], "undefined">>
                /\ DOMAIN handlers'[e] = DOMAIN handlers[e] \cup names
                /\ \A n \in DOMAIN handlers[e] \ names : handlers'[e][n] = handlers[e][n]
    ]_vars

\* a batch whose first entry was free and whose last entry was a duplicate
\* was refused, and the first entry is not registered
C13_Witness ==
    /\ ev.op = "addHandlers" /\ ev.open /\ ev.exc = DuplicateHandler
    /\ Len(ev.msg.args[2][2][2]) = 3
    /\ "sum" \in DOMAIN handlers["A"]
    /\ "um" \notin DOMAIN handlers["A"]

\* ---------------------------------------------------------------- C14
\* C14: an addHandlers whose function entries all have non-empty string names
\* throws the duplicate-handler error exactly when prefix + name of one of
\* them is already registered as an exact handler, and otherwise returns; in
\* neither case does it change what is registered under an exact name that
\* was registered before.
C14_DuplicateMeansPrefixedName ==
    [][\A e \in Ports : (ev'.at = e /\ public[e] /\ ev'.op = "addHandlers") =>
        LET prefix == ev'.msg.args[2][1][2]
            add    == FunctionEntries(ev'.msg.args[2][2][2])
        IN  (\A i \in 1..Len(add) : ~BadName(add[i])) =>
            /\ ev'.exc = IF \E i \in 1..Len(add) : Concat(prefix, add[i][1][2]) \in DOMAIN handlers[e]
                         THEN DuplicateHandler ELSE None
            /\ \A n \in DOMAIN handlers[e] :
                n \in DOMAIN handlers'[e] /\ handlers'[e][n] = handlers[e][n]
    ]_vars

\* ---------------------------------------------------------------- C15
\* C15: a handler that is invoked for an inbound message and returns the
\* value of port.isRequest(), whether at once or after it has caused another
\* inbound message to be dispatched on the same endpoint, returns true if
\* the message's id is not zero and false if it is zero.
C15_IsRequestThroughoutHandler ==
    [][\A e \in Ports :
        (/\ ev'.at = e /\ public[e] /\ public'[e]
         /\ ev'.op = "onData" /\ ev'.msg.name \in DOMAIN handlers[e]
         /\ handlers[e][ev'.msg.name][1][1] \in {"ask", "nest"}) =>
            /\ ev'.msg.id \in DOMAIN served'[e]
            /\ served'[e][ev'.msg.id].kind = "value"
            /\ served'[e][ev'.msg.id].val = Bool(ev'.msg.id # 0)
    ]_vars

\* ---------------------------------------------------------------- C16
\* C16: between the runs of onData the flag of every endpoint is in its unset
\* state, also after a handler has thrown, and port.isRequest() called then
\* throws: the not-in-a-handler error on an open endpoint, the
\* disconnected error on a destroyed one.
C16_FlagUnsetOutsideHandlers ==
    /\ \A e \in Ports : _isRequest[e] = 0
    /\ ev.op = "isRequest" => ev.exc = IF ev.open THEN NotInHandler ELSE Disconnected

\* isRequest() was refused after a handler had returned for a post and
\* another had thrown for a call
C16_Witness ==
    /\ ev.op = "isRequest" /\ ev.open /\ ev.exc = NotInHandler
    /\ DOMAIN served["A"] = {0, 7}
    /\ served["A"][0].kind = "value"
    /\ served["A"][7].kind = "throw"

\* ---------------------------------------------------------------- C17
\* the first pattern of e, in registration order, that matches name (0: none)
FirstMatch(e, name) ==
    IF \E i \in 1..Len(wildcards[e]) : test(wildcards[e][i][1], name)
    THEN CHOOSE i \in 1..Len(wildcards[e]) :
            /\ test(wildcards[e][i][1], name)
            /\ \A j \in 1..(i - 1) : ~test(wildcards[e][j][1], name)
    ELSE 0

\* C17: a named message with plain arguments that arrives at an open
\* endpoint runs the handler registered under exactly that name with those
\* arguments, whatever patterns are registered; if there is none it runs the
\* handler of the first matching pattern in registration order with the name
\* followed by those arguments; if no pattern matches either, no handler runs.
C17_ExactThenFirstPattern ==
    [][\A e \in Ports :
        (ev'.at = e /\ public[e] /\ ev'.op = "onData" /\ ev'.msg.name # "") =>
            LET name == ev'.msg.name
                id   == ev'.msg.id
                args == ev'.msg.args[2]
            IN  IF name \in DOMAIN handlers[e]
                THEN /\ id \in DOMAIN served'[e]
                     /\ served'[e][id].target = handlers[e][name][1]
                     /\ served'[e][id].args = args
                     /\ ev'.trace[Len(ev'.trace)] = <<"run", handlers[e][name][1], args>>
                ELSE IF FirstMatch(e, name) # 0
                THEN /\ id \in DOMAIN served'[e]
                     /\ served'[e][id].target = wildcards[e][FirstMatch(e, name)][2]
                     /\ served'[e][id].args = <<Str(name)>> \o args
                     /\ ev'.trace = <<<<"run", wildcards[e][FirstMatch(e, name)][2],
                                       <<Str(name)>> \o args>>>>
                ELSE served'[e] = served[e] /\ ev'.trace = <<>>
    ]_vars

\* with the patterns /um/ and /^s/ registered in this order and no exact
\* handler, a call of "sum" ran the handler of /um/, given the name first
C17_Witness ==
    /\ ev.op = "onData" /\ ev.open /\ ev.msg.name = "sum" /\ ev.msg.id = 7
    /\ Len(wildcards["A"]) = 2 /\ wildcards["A"][1][1] = "/um/" /\ wildcards["A"][2][1] = "/^s/"
    /\ "sum" \notin DOMAIN handlers["A"]
    /\ ev.trace = <<<<"run", <<"ret", Json(6)>>, <<Str("sum"), Json(2)>>>>>>

\* ---------------------------------------------------------------- C18
\* C18: request(name, ...) on an open endpoint with a name that is not a
\* non-empty string throws the TypeError, draws no id, hands nothing to the
\* adapter and adds no entry to the request table.
C18_RequestNeedsNonEmptyName ==
    [][\A e \in Ports :
        (/\ ev'.at = e /\ public[e] /\ ev'.op = "request"
         /\ (ev'.msg.args[2][1][1] # "str" \/ ev'.msg.args[2][1] = Str(""))) =>
            /\ ev'.exc = NameNotString
            /\ lastId'[e] = lastId[e]
            /\ ev'.out = <<>>
            /\ requests'[e] = requests[e]
            /\ promises'[e] = promises[e]
    ]_vars

\* ---------------------------------------------------------------- C19
\* C19: post(name, ...) with a string name on an open endpoint hands exactly
\* one message, with that name and id 0, to the adapter and leaves the
\* request table, the promises and the id counter as they were; an endpoint
\* that is handed a named message with id 0 sends nothing while it handles
\* it (handler or no handler, return or throw) and returns false to the
\* adapter, and sends nothing when a deferred result of its handler succeeds
\* or fails.
C19_PostIsOneWay ==
    [][\A e \in Ports : (ev'.at = e /\ public[e]) =>
        /\ (ev'.op = "post" /\ ev'.msg.args[2][1][1] = "str") =>
            /\ ev'.exc = None
            /\ Len(ev'.out) = 1
            /\ ev'.out[1].name = ev'.msg.args[2][1][2] /\ ev'.out[1].id = 0
            /\ requests'[e] = requests[e]
            /\ promises'[e] = promises[e]
            /\ lastId'[e] = lastId[e]
        /\ (ev'.op = "onData" /\ ev'.msg.name # "" /\ ev'.msg.id = 0) =>
            /\ ev'.out = <<>> /\ ev'.ret = FALSE
            /\ \A i \in 1..Len(deferred'[e]) :
                    deferred'[e][i].id = 0 \/ deferred'[e][i] \in {deferred[e][j] : j \in 1..Len(deferred[e])}
        /\ (ev'.op = "then" /\ ev'.msg.id = 0) => ev'.out = <<>>
    ]_vars

\* the handler of a post returned a deferred result, the result failed, and
\* nothing was sent
C19_Witness ==
    /\ ev.op = "then" /\ ev.open /\ ev.msg.id = 0 /\ ev.reports = 1 /\ ev.out = <<>>
    /\ 0 \in DOMAIN served["A"]
    /\ served["A"][0].val = <<"reject", MyBad>>
    /\ posts["A"] = 1

\* ---------------------------------------------------------------- C20
\* the handler runs that replaying the records queue at e, in order, amounts
\* to: a record whose name has an exact handler runs it with the record's
\* arguments, one whose name only a pattern matches runs the first such
\* pattern's handler with the name put first, any other runs nothing
RECURSIVE Replay(_, _)
Replay(e, queue) ==
    IF queue = <<>> THEN <<>>
    ELSE LET name == Head(queue)[1]
             args == Head(queue)[2]
         IN  (IF args[1] # "arr" THEN <<>>
              ELSE IF name \in DOMAIN handlers[e]
              THEN <<<<"run", handlers[e][name][1], args[2]>>>>
              ELSE IF FirstMatch(e, name) # 0
              THEN <<<<"run", wildcards[e][FirstMatch(e, name)][2], <<Str(name)>> \o args[2]>>>>
              ELSE <<>>)
             \o Replay(e, Tail(queue))

\* C20: receiving a deferred-post record runs no handler and appends the
\* record to the queue; no step shortens or reorders the queue; and the step
\* that destroys the endpoint runs, for the queued records in the order
\* queued, the handlers that were registered when the step began, each
\* record once, and only then gives the termination signal.
C20_DeferredPostsReplayedOnce ==
    [][\A e \in Ports : (ev'.at = e /\ public[e]) =>
        /\ (ev'.op = "onData" /\ ev'.msg.name = "" /\ ev'.msg.id = 0 /\ ev'.msg.ctl[2] = 1) =>
            /\ ev'.trace = <<>>
            /\ served'[e] = served[e]
            /\ endQueue'[e] = Append(endQueue[e], <<ev'.msg.ctl[3], ev'.msg.args>>)
        /\ Len(endQueue'[e]) >= Len(endQueue[e])
        /\ SubSeq(endQueue'[e], 1, Len(endQueue[e])) = endQueue[e]
        /\ ~public'[e] =>
            LET runs == SelectSeq(ev'.trace, LAMBDA t : t[1] = "run")
            IN  /\ runs = Replay(e, endQueue[e])
                /\ SubSeq(ev'.trace, 1, Len(runs)) = runs
                /\ Len(ev'.trace) > Len(runs)
                /\ endSignal'[e] # <<>>
    ]_vars

\* ---------------------------------------------------------------- C21
\* what the termination promise of e resolved with: the argument of the first
\* call of its resolver (later calls of a resolver do nothing), None while it
\* is unresolved
Resolution(e) == IF endSignal[e] = <<>> THEN None ELSE endSignal[e][1]
\* the reason the destroy of this step was called with
ReasonOf(msg) == IF msg.args[1] = "arr" /\ Len(msg.args[2]) = 1 THEN msg.args[2][1] ELSE Undefined

\* C21: the termination signal is unresolved while the endpoint is open; the
\* step that destroys an open endpoint resolves it with the reason of that
\* destroy when the reason is an object and with null otherwise; the
\* resolution never changes afterwards; after destroy the ended accessor
\* returns true, before it returns the promise, and reading it never fails.
C21_SignalCarriesFirstReason ==
    [][\A e \in Ports :
        /\ (public'[e] => Resolution(e)' = None /\ ~ended'[e])
        /\ (Resolution(e) # None => Resolution(e)' = Resolution(e))
        /\ (ev'.at = e /\ ev'.op \in {"destroy", "onEnd"} /\ public[e]
              => /\ ~public'[e] /\ ended'[e]
                 /\ Resolution(e)' = IF IsObject(ReasonOf(ev'.msg)) THEN ReasonOf(ev'.msg) ELSE Null)
        /\ (ev'.at = e /\ ev'.op = "ended"
              => ev'.exc = None /\ ev'.ret = ~public[e])]_vars

\* ---------------------------------------------------------------- C22
\* the thisArg registered with the handler that serves name at e, None if no
\* handler serves it
ThisArgOf(e, name) ==
    IF name \in DOMAIN handlers[e] THEN handlers[e][name][2]
    ELSE IF FirstMatch(e, name) # 0 THEN wildcards[e][FirstMatch(e, name)][3]
    ELSE "none"

\* C22: a handler that serves a named message is invoked with the thisArg it
\* was registered with when that is neither null nor undefined, and with the
\* altThis the adapter passed to onData when the registered thisArg is null or
\* undefined.
C22_ReceiverIsThisArgElseAltThis ==
    [][\A e \in Ports :
        (/\ ev'.at = e /\ ev'.op = "onData" /\ public[e]
         /\ ev'.msg.name # "" /\ ThisArgOf(e, ev'.msg.name) # "none"
         /\ Len(ev'.trace) = 1)
        => /\ ev'.msg.id \in DOMAIN served'[e]
           /\ served'[e][ev'.msg.id].this =
              IF ThisArgOf(e, ev'.msg.name) \in {"null", "undefined"} THEN ev'.msg.altThis
              ELSE ThisArgOf(e, ev'.msg.name)]_vars

\* ---------------------------------------------------------------- C23
\* C23: a JSON-compatible value that the peer encodes and the endpoint
\* decodes arrives as the original value, as argument of a handler and as
\* result of a call, also when it is an object with a '' property of its own;
\* a payload whose '' tag the mapper does not know is refused: as argument it
\* is answered with the TypeError and no handler runs, as result it settles
\* nothing and is reported.
C23_DecodeInvertsEncode ==
    [][\A e \in Ports : (ev'.at = e /\ ev'.op = "onData" /\ public[e]) =>
        /\ \A value \in JsonValues :
              ev'.msg.args = Arr(<<Wired(e, value)>>) =>
                /\ (ev'.msg.name \in DOMAIN handlers[e]
                      => /\ ev'.msg.id \in DOMAIN served'[e]
                         /\ served'[e][ev'.msg.id].args = <<value>>
                         /\ ev'.trace = <<<<"run", handlers[e][ev'.msg.name][1], <<value>>>>>>)
                /\ (ev'.msg.name = "" /\ ev'.msg.id \in requests[e]
                      => promises'[e][ev'.msg.id].settled = <<<<"resolve", value>>>>)
        /\ \A raw \in Unmapped :
              ev'.msg.args = Arr(<<raw>>) =>
                /\ (ev'.msg.name \in DOMAIN handlers[e] /\ ev'.msg.id # 0
                      => /\ ev'.trace = <<>>
                         /\ ev'.out = <<Msg("", -ev'.msg.id, Arr(<<Keyed2("TypeError", "Can't unmap argument")>>))>>)
                /\ (ev'.msg.name = "" /\ ev'.msg.id \in requests[e]
                      => promises'[e][ev'.msg.id].settled = <<>> /\ ev'.reports = 1)]_vars

\* the object { '': 1, cb: 'x' } of the peer has reached a handler as it was,
\* and an unknown tag has been refused
C23_Witness ==
    /\ 7 \in DOMAIN served["A"] /\ served["A"][7].args = <<Keyed1("x")>>
    /\ ev.op = "onData" /\ ev.msg.args = Arr(<<Keyed3>>) /\ ev.msg.id = 7 /\ Len(ev.out) = 1

\* ---------------------------------------------------------------- C24
\* C24: a call or a stub invocation whose message the adapter's send answered
\* with a value other than undefined returns that value and leaves the Request
\* Table as it was, without an entry for the id of the call; one that send
\* answered with undefined adds exactly the entry of that id.
C24_EntryOnlyWhenSendReturnsNothing ==
    [][\A e \in Ports :
        (ev'.at = e /\ ev'.op \in {"request", "stub"} /\ public[e] /\ ev'.exc = None) =>
            /\ Len(ev'.out) = 1
            /\ LET sent == ev'.out[1]
                   id   == IF ev'.op = "request" THEN sent.id ELSE sent.ctl[1]
               IN  IF ev'.given # Undefined
                   THEN /\ ev'.value = ev'.given
                        /\ requests'[e] = requests[e] /\ id \notin requests'[e]
                        /\ promises'[e] = promises[e]
                   ELSE /\ ev'.value = Undefined
                        /\ id \notin requests[e] /\ requests'[e] = requests[e] \cup {id}]_vars

\* a stub invocation was answered by the adapter itself after a call that
\* waits for its reply
C24_Witness ==
    /\ ev.op = "stub" /\ ev.exc = None /\ ev.given = Json(9) /\ ev.value = Json(9)
    /\ requests["A"] = {2} /\ lastId["A"] = 3

\* ---------------------------------------------------------------- C25
\* the id of the call that the request or stub step of this state handed to
\* the adapter
HandedId == IF ev.op = "request" THEN ev.out[1].id ELSE ev.out[1].ctl[1]

\* C25: the first id an endpoint hands to its adapter for a call or a stub
\* invocation is 2 and each later one is larger by one than the one before, so
\* the ids increase strictly, are never 0 and never repeat; the counter never
\* decreases, and every key of the Request Table is an id handed out so far.
C25_IdsIncreaseFromTwo ==
    [][\A e \in Ports :
        /\ lastId'[e] >= lastId[e] /\ lastId[e] >= 1
        /\ requests'[e] \subseteq 2..lastId'[e]
        /\ (ev'.at = e /\ ev'.op \in {"request", "stub"} /\ public[e] /\ ev'.exc = None) =>
              /\ Len(ev'.out) = 1
              /\ HandedId' = lastId[e] + 1 /\ HandedId' = lastId'[e]
              /\ HandedId' >= 2 /\ HandedId' \notin DOMAIN promises[e]]_vars

\* the second id went to a stub invocation after the first went to a call
C25_Witness ==
    /\ ev.op = "stub" /\ ev.exc = None /\ Len(ev.out) = 1 /\ ev.out[1].ctl[1] = 3
    /\ lastId["A"] = 3 /\ requests["A"] = {2, 3}

\* ---------------------------------------------------------------- C26
\* C26: a reply whose absolute id is not in the Request Table (never issued,
\* answered before, or answered by destroy) is reported once and nothing else
\* happens: onData throws nothing and returns false, no message is sent, no
\* handler runs, no promise is settled, and the Request Table and the handler
\* registry stay as they were; so no call is ever settled twice.
C26_UnknownReplyOnlyReported ==
    [][\A e \in Ports :
        /\ \A k \in DOMAIN promises'[e] : Len(promises'[e][k].settled) <= 1
        /\ (/\ ev'.at = e /\ ev'.op = "onData" /\ ev'.msg.name = "" /\ ev'.msg.id # 0
            /\ Abs(ev'.msg.id) \notin requests[e])
           => /\ ev'.exc = None /\ ev'.ret = FALSE /\ ev'.reports = 1
              /\ ev'.out = <<>> /\ ev'.trace = <<>>
              /\ requests'[e] = requests[e] /\ promises'[e] = promises[e]
              /\ handlers'[e] = handlers[e] /\ wildcards'[e] = wildcards[e]
              /\ deferred'[e] = deferred[e]]_vars

\* a second reply to a call that was answered before has just been reported
C26_Witness ==
    /\ ev.op = "onData" /\ ev.msg.name = "" /\ ev.msg.id = -2 /\ ev.reports = 1
    /\ Outcome("A", 2) = <<<<"resolve", Json(5)>>>>

\* ---------------------------------------------------------------- C27
\* C27: in every reachable state, each call that got a Request Table entry
\* and whose entry is gone has had its continuation fired exactly once
\* (resolved, rejected, or rejected by destroy), whatever the payload of its
\* reply was.
C27_RemovedMeansSettledOnce ==
    \A e \in Ports : \A k \in DOMAIN promises[e] :
        k \notin requests[e] => Len(promises[e][k].settled) = 1

\* ---------------------------------------------------------------- C28
\* C28: once an endpoint is destroyed its Request Table, its exact-name
\* handlers, its pattern handlers and both directions of its Callback
\* Registry are empty.
C28_DestroyEmptiesRegistries ==
    \A e \in Ports : ~public[e] =>
        /\ requests[e] = {}
        /\ handlers[e] = EmptyMap /\ wildcards[e] = <<>>
        /\ id2cb[e] = EmptyMap /\ cb2id[e] = EmptyMap

\* ---------------------------------------------------------------- C29
\* C29: a destroy, by the application or by the adapter's onEnd, throws
\* nothing to its caller and leaves the endpoint destroyed, its ended accessor
\* true and its termination signal resolved, also when the adapter's destroy
\* throws and when a handler that the flush of the deferred posts runs throws.
C29_DestroyAlwaysCompletes ==
    [][\A e \in Ports : (ev'.at = e /\ ev'.op \in {"destroy", "onEnd"}) =>
        /\ ev'.exc = None
        /\ ~public'[e] /\ ended'[e] /\ Resolution(e)' # None]_vars

\* a destroy in which the handler of a deferred post threw and then the
\* adapter's destroy threw: both were reported
C29_Witness ==
    /\ ev.op = "destroy" /\ ev.open /\ ev.exc = None /\ ~public["A"]
    /\ ev.reports = 2 /\ destroyCalls["A"] = 1
    /\ Len(ev.trace) = 2 /\ ev.trace[1][1] = "run" /\ ev.trace[1][2] = <<"throw", RangeBad>>

\* ---------------------------------------------------------------- C30
\* the error that onData of e catches for the named message msg: the
\* TypeError of the decoder when an argument has an unknown tag, the error
\* the handler registered under the name throws, None if neither
Caught(e, msg) ==
    IF msg.args = Arr(<<Keyed3>>) THEN CantUnmap
    ELSE IF msg.name \in DOMAIN handlers[e] /\ handlers[e][msg.name][1][1] = "throw"
    THEN handlers[e][msg.name][1][2]
    ELSE None

\* C30: when a handler throws synchronously, or an argument of the inbound
\* request cannot be decoded, onData of an open endpoint throws nothing and
\* returns false; for a message with id N # 0 it sends exactly one message,
\* the failure reply -N that carries the error, and reports nothing; for a
\* message with id 0 it sends nothing and reports the error once; the Request
\* Table and the handler registry stay as they were.
C30_HandlerErrorStaysInside ==
    [][\A e \in Ports :
        (/\ ev'.at = e /\ ev'.op = "onData" /\ public[e]
         /\ ev'.msg.name # "" /\ Caught(e, ev'.msg) # None)
        => /\ ev'.exc = None /\ ev'.ret = FALSE
           /\ IF ev'.msg.id # 0
              THEN /\ ev'.out = <<Msg("", -ev'.msg.id,
                                      Arr(<<Keyed2(Caught(e, ev'.msg)[3], Caught(e, ev'.msg)[4])>>))>>
                   /\ ev'.reports = 0
              ELSE ev'.out = <<>> /\ ev'.reports = 1
           /\ requests'[e] = requests[e] /\ promises'[e] = promises[e]
           /\ handlers'[e] = handlers[e] /\ wildcards'[e] = wildcards[e]
           /\ deferred'[e] = deferred[e] /\ public'[e]]_vars

\* the handler of call 7 threw while a call of the endpoint itself was pending
C30_Witness ==
    /\ ev.op = "onData" /\ ev.msg.name = "sum" /\ ev.msg.id = 7 /\ ev.msg.args = Arr(<<Json(2)>>)
    /\ Service("A", 7).kind = "throw"
    /\ ev.out = <<Msg("", -7, Arr(<<Keyed2("RangeError", "bad")>>))>>
    /\ requests["A"] # {}

\* ---------------------------------------------------------------- C31
\* the value v as the mapper encodes it for a reply
Encoded(v) == IF IsError(v) THEN Keyed2(v[3], v[4]) ELSE v
\* the reply id with payload v, through the reply function (fn) or through send
ReplyMsg(id, v, fn) == [Msg("", id, Arr(<<Encoded(v)>>)) EXCEPT !.reply = fn]
\* the sequence s without its i-th element
Without(s, i) == SubSeq(s, 1, i - 1) \o SubSeq(s, i + 1, Len(s))
\* a deferred result for call N of e is still to settle
Awaited(e, N) == \E i \in 1..Len(deferred[e]) : deferred[e][i].id = N

\* C31: a call with id N # 0 that reaches a handler of an open endpoint is
\* answered by exactly one reply: when the handler returns a value that is no
\* promise, onData sends +N with that value at once and returns false (-N
\* with the error when it throws); when it returns a promise, onData sends
\* nothing, returns true and keeps one continuation, and the step in which
\* the promise settles sends exactly +N or -N and drops the continuation.
\* Each reply goes through the reply function of the message when there is
\* one and through the adapter's send otherwise.  Every promise settles, so
\* no continuation is kept for ever.
C31_OneReplyPerCall ==
    /\ [][\A e \in Ports :
           /\ (/\ ev'.at = e /\ ev'.op = "onData" /\ public[e]
               /\ ev'.msg.name \in DOMAIN handlers[e] /\ ev'.msg.id # 0)
              => LET h == handlers[e][ev'.msg.name][1]
                     N == ev'.msg.id
                 IN  CASE h[1] = "ret" ->
                            /\ ev'.out = <<ReplyMsg(N, h[2], ev'.msg.reply)>>
                            /\ ev'.ret = FALSE /\ deferred'[e] = deferred[e]
                       [] h[1] = "throw" ->
                            /\ ev'.out = <<ReplyMsg(-N, h[2], ev'.msg.reply)>>
                            /\ ev'.ret = FALSE /\ deferred'[e] = deferred[e]
                       [] OTHER ->
                            /\ ev'.out = <<>> /\ ev'.ret = TRUE
                            /\ Len(deferred'[e]) = Len(deferred[e]) + 1
                            /\ SubSeq(deferred'[e], 1, Len(deferred[e])) = deferred[e]
                            /\ deferred'[e][Len(deferred'[e])].id = N
                            /\ deferred'[e][Len(deferred'[e])].reply = ev'.msg.reply
                            /\ deferred'[e][Len(deferred'[e])].outcome = h
           /\ (ev'.at = e /\ ev'.op = "then" /\ public[e] /\ ev'.msg.id # 0)
              => \E i \in 1..Len(deferred[e]) :
                    /\ deferred[e][i].id = ev'.msg.id
                    /\ deferred'[e] = Without(deferred[e], i)
                    /\ ev'.exc = None
                    /\ ev'.out = <<ReplyMsg(IF deferred[e][i].outcome[1] = "resolve"
                                            THEN ev'.msg.id ELSE -ev'.msg.id,
                                            deferred[e][i].outcome[2], deferred[e][i].reply)>>
           /\ (ev'.op \notin {"onData", "then"} => deferred'[e] = deferred[e])]_vars
    /\ \A N \in {7, 8} : Awaited("A", N) ~> ~Awaited("A", N)

\* the promise of call 7, which came with a reply function, has just settled
\* and its reply went through that function, after call 8 was answered through send
C31_Witness ==
    /\ ev.op = "then" /\ ev.open /\ ev.msg.id = 7
    /\ ev.out = <<ReplyMsg(-7, MyBad, TRUE)>>
    /\ 8 \in DOMAIN served["A"] /\ served["A"][8].kind = "value"

\* ---------------------------------------------------------------- C32
\* C32: while the promise a handler returned for an earlier call has not
\* settled, a later call that arrives at the open endpoint is dispatched to
\* its handler in the same step, the continuations of the earlier calls stay
\* as they were, and whatever the step sends carries the id of the later
\* call; the step in which a promise settles sends only the id of its own
\* call and leaves the other continuations alone.
C32_DeferredCallDoesNotBlock ==
    [][\A e \in Ports :
        /\ (/\ ev'.at = e /\ ev'.op = "onData" /\ public[e] /\ deferred[e] # <<>>
            /\ ev'.msg.name \in DOMAIN handlers[e] /\ ev'.msg.id # 0)
           => /\ ev'.exc = None
              /\ ev'.trace = <<<<"run", handlers[e][ev'.msg.name][1], ev'.msg.args[2]>>>>
              /\ SubSeq(deferred'[e], 1, Len(deferred[e])) = deferred[e]
              /\ \A i \in 1..Len(ev'.out) : Abs(ev'.out[i].id) = ev'.msg.id
              /\ (handlers[e][ev'.msg.name][1][1] \in {"ret", "throw"} => Len(ev'.out) = 1)
        /\ (ev'.at = e /\ ev'.op = "then" /\ public[e] /\ ev'.msg.id # 0)
           => /\ \A i \in 1..Len(ev'.out) : Abs(ev'.out[i].id) = ev'.msg.id
              /\ \E i \in 1..Len(deferred[e]) :
                    deferred[e][i].id = ev'.msg.id /\ deferred'[e] = Without(deferred[e], i)]_vars

\* call 8 has just been answered while the result of call 7 is outstanding
C32_Witness ==
    /\ ev.op = "onData" /\ ev.open /\ ev.msg.id = 8
    /\ ev.out = <<ReplyMsg(8, Json(5), FALSE)>>
    /\ Awaited("A", 7) /\ ~Awaited("A", 8)

\* ---------------------------------------------------------------- C33
\* the step delivers an optional message that no handler of the open
\* endpoint e serves
OptionalUnhandled(e) ==
    /\ ev'.at = e /\ ev'.op = "onData" /\ public[e]
    /\ ev'.msg.name # "" /\ ev'.msg.optional /\ ~Handled(e, ev'.msg.name)
\* the step is silent: nothing runs, is sent, is reported or is thrown
Silent == ev'.trace = <<>> /\ ev'.out = <<>> /\ ev'.reports = 0 /\ ev'.exc = None /\ ev'.ret = FALSE
\* the step leaves everything of e but its Callback Registry as it was
SameButCallbacks(e) ==
    /\ requests'[e] = requests[e] /\ promises'[e] = promises[e]
    /\ handlers'[e] = handlers[e] /\ wildcards'[e] = wildcards[e]
    /\ lastId'[e] = lastId[e] /\ endQueue'[e] = endQueue[e]
    /\ deferred'[e] = deferred[e] /\ _isRequest'[e] = _isRequest[e]
    /\ public'[e] = public[e] /\ ended'[e] = ended[e] /\ served'[e] = served[e]
\* the callback ids among the arguments of the message
CallbackIds(msg) == {msg.args[2][i][3] : i \in CbAt(msg.args[2])}

C34_StubOfDestroyedPortRefuses ==
    [][\A e \in Ports : (ev'.at = e /\ ev'.op = "stub" /\ ~public[e]) =>
        /\ ev'.exc = CallbackClosed
        /\ lastId'[e] = lastId[e] /\ ev'.out = <<>> /\ chan' = chan
        /\ requests'[e] = requests[e] /\ promises'[e] = promises[e]]_vars

\* B has invoked a stub after it was destroyed
C34_Witness ==
    /\ ev.op = "stub" /\ ev.at = "B" /\ ~ev.open /\ ev.exc = CallbackClosed
    /\ made["B"] # {} /\ lastId["B"] = 1

\* ---------------------------------------------------------------- C35
\* C35: a callback invocation (control tag 0) with call id N # 0 for a
\* callback id that is not bound at the open endpoint runs no function and
\* binds nothing; it is answered with exactly the failure reply -N that
\* carries the callback-destroyed error.
C35_UnboundCallbackRefused ==
    [][\A e \in Ports :
        (/\ ev'.at = e /\ ev'.op = "onData" /\ public[e]
         /\ ev'.msg.name = "" /\ ev'.msg.id = 0 /\ ev'.msg.ctl[2] = 0
         /\ ev'.msg.ctl[1] # 0 /\ ev'.msg.ctl[3] \notin DOMAIN id2cb[e])
        => /\ ev'.trace = <<>> /\ served'[e] = served[e]
           /\ id2cb'[e] = id2cb[e] /\ cb2id'[e] = cb2id[e]
           /\ ev'.exc = None /\ ev'.ret = FALSE
           /\ ev'.out = <<ReplyMsg(-ev'.msg.ctl[1], CallbackDestroyed, ev'.msg.reply)>>]_vars

\* the peer invoked a1 after the application had released the function it
\* was bound to
C35_Witness ==
    /\ ev.op = "onData" /\ ev.open /\ ev.msg.ctl = <<8, 0, "a1">>
    /\ Len(ev.out) = 1 /\ ev.out[1].id = -8
    /\ rand["A"] = 1 /\ "a1" \notin DOMAIN id2cb["A"] /\ posts["A"] = 1

\* ---------------------------------------------------------------- C36
\* C36: a call whose reply the adapter hands to onData before the send of the
\* call has returned is settled with that reply: after the request step the
\* call is resolved with the payload, it is not in the Request Table, and
\* nothing was reported.
C36_SynchronousReplySettles ==
    [][\A e \in Ports :
        (/\ ev'.at = e /\ ev'.op = "request" /\ public[e] /\ ev'.exc = None
         /\ ev'.during # None /\ ev'.during[1] = "reply")
        => /\ lastId'[e] \in DOMAIN promises'[e]
           /\ promises'[e][lastId'[e]].settled = <<<<"resolve", ev'.during[2]>>>>
           /\ lastId'[e] \notin requests'[e]
           /\ ev'.reports = 0]_vars

\* ---------------------------------------------------------------- C37
\* C37: in every reachable state a destroyed endpoint has an empty Request
\* Table and every call it ever registered has been settled, also when the
\* endpoint was destroyed from inside the adapter's send of a call.
C37_DestroyedHasNoPendingCall ==
    \A e \in Ports : ~public[e] =>
        /\ requests[e] = {}
        /\ \A k \in DOMAIN promises[e] : promises[e][k].settled # <<>>

\* ---------------------------------------------------------------- C38
\* C38: the deferred-post queue of an endpoint grows only in a step in which
\* that endpoint receives a control message with tag 1; callback calls (tag 0),
\* release notices (tag 2), requests, posts, replies and the calls of the
\* application leave the queue as it is.
C38_QueueGrowsOnlyOnDeferredPost ==
    [][\A e \in Ports : endQueue'[e] # endQueue[e] =>
        /\ ev'.op = "onData" /\ ev'.at = e
        /\ ev'.msg.name = "" /\ ev'.msg.id = 0 /\ ev'.msg.ctl[2] = 1
    ]_vars

\* ---------------------------------------------------------------- C39
\* C39: when a message of any kind is handed to onData of an endpoint that was
\* destroyed before, onData returns normally (no error reaches the adapter),
\* and no handler and no callback is run.
C39_DestroyedDispatchesNothing ==
    [][\A e \in Ports : (ev'.op = "onData" /\ ev'.at = e /\ ~ev'.open) =>
        /\ ev'.exc = None
        /\ ev'.trace = <<>>
        /\ served'[e] = served[e]
    ]_vars

\* ---------------------------------------------------------------- C40
\* the positions of args that hold a stub
StubAt(args) == {i \in 1..Len(args) : args[i][1] = "stub"}

\* C40: an endpoint that sends a stub (as an argument of a call or of a stub
\* invocation) encodes it under the callback id the stub was made for and
\* registers no other id for it; and the endpoint that is handed a callback
\* id for which it holds a function of its own passes that very function to
\* the handler or callback it runs, makes no stub, and keeps the id bound to
\* the function.
C40_StubGoesHomeAsTheFunction ==
    [][\A e \in Ports :
        /\ (ev'.at = e /\ ev'.op \in {"request", "stub"} /\ ev'.exc = None /\ ev'.out # <<>>) =>
            LET sent == promises'[e][lastId'[e]].args
            IN  \A i \in StubAt(sent) :
                    /\ ev'.out[1].args[2][i] = Keyed1(sent[i][3])
                    /\ {c \in DOMAIN id2cb'[e] : id2cb'[e][c] = sent[i]} = {sent[i][3]}
                    /\ cb2id'[e][sent[i]] = sent[i][3]
                    /\ rand'[e] = rand[e]
        /\ (ev'.at = e /\ ev'.op = "onData" /\ public[e] /\ served'[e] # served[e]) =>
            LET k     == IF ev'.msg.name = "" THEN ev'.msg.ctl[1] ELSE ev'.msg.id
                own   == {i \in CbAt(ev'.msg.args[2]) :
                            /\ ev'.msg.args[2][i][3] \in DOMAIN id2cb[e]
                            /\ id2cb[e][ev'.msg.args[2][i][3]] \in {Fn(e, f) : f \in FnNames}}
            IN  /\ \A i \in own :
                    /\ served'[e][k].args[i] = id2cb[e][ev'.msg.args[2][i][3]]
                    /\ cb2id[e][served'[e][k].args[i]] = ev'.msg.args[2][i][3]
                    /\ public'[e] => id2cb'[e][ev'.msg.args[2][i][3]] = served'[e][k].args[i]
                /\ own = CbAt(ev'.msg.args[2]) => stubs'[e] = stubs[e]
    ]_vars

\* B invoked the stub of A's function f with the stub itself as argument, and
\* f was run at A with f as its argument; neither side made a new id or stub
C40_Witness ==
    /\ ev.op = "onData" /\ ev.at = "A"
    /\ ev.msg.ctl = <<2, 0, "a1">> /\ ev.msg.args = Arr(<<Keyed1("a1")>>)
    /\ 2 \in DOMAIN served["A"]
    /\ served["A"][2].target = Fn("A", "f") /\ served["A"][2].args = <<Fn("A", "f")>>
    /\ stubs["A"] = 0 /\ rand["B"] = 0
====
